---- MODULE Spec2Model ----
(***************************************************************************)
(* A model of ai-generators/build_public_pages.py: the static site builder *)
(* that resolves data folders, loads JSON/YAML records and writes 8 HTML   *)
(* pages.  Text is a sequence of one-character strings, so that strip(),   *)
(* lower(), title(), endswith() and sorted() are computed, not assumed.    *)
(***************************************************************************)
EXTENDS Integers, Sequences, FiniteSets, TLC

\* ------------------------------------------------------------------ bounds
\* Directory levels above (and including) the script's own directory.
Depth == 2
\* Files a directory of the input tree holds at most.
MaxFiles == 2
\* Successive runs of the tool over one input tree.
MaxRuns == 2

\* ------------------------------------------------------------------- text
Uppers == <<"A","B","C","D","E","F","G","H","I","J","K","L","M",
            "N","O","P","Q","R","S","T","U","V","W","X","Y","Z">>
Lowers == <<"a","b","c","d","e","f","g","h","i","j","k","l","m",
            "n","o","p","q","r","s","t","u","v","w","x","y","z">>
Digits == {"0","1","2","3","4","5","6","7","8","9"}
Spaces == {" "}
\* The characters of the model in code-point order (what sorted() compares).
CharOrder == <<" ", "-", ".", "/", "0","1","2","3","4","5","6","7","8","9", "@">>
             \o Uppers \o <<"_">> \o Lowers

Ord(c) == CHOOSE k \in 1..Len(CharOrder) : CharOrder[k] = c
IsUpper(c) == \E k \in 1..26 : Uppers[k] = c
IsLower(c) == \E k \in 1..26 : Lowers[k] = c
IsAlpha(c) == IsUpper(c) \/ IsLower(c)
ToLower(c) == IF IsUpper(c) THEN Lowers[CHOOSE k \in 1..26 : Uppers[k] = c] ELSE c
ToUpper(c) == IF IsLower(c) THEN Uppers[CHOOSE k \in 1..26 : Lowers[k] = c] ELSE c

\* str.lower()
Lower(s) == [k \in 1..Len(s) |-> ToLower(s[k])]
\* str.title(): a letter that follows a non-letter is upper-cased, any other lower-cased
Title(s) == [k \in 1..Len(s) |->
               IF k = 1 \/ ~IsAlpha(s[k-1]) THEN ToUpper(s[k]) ELSE ToLower(s[k])]
\* str.replace(a, b) for single characters
ReplaceChar(s, a, b) == [k \in 1..Len(s) |-> IF s[k] = a THEN b ELSE s[k]]

RECURSIVE LStrip(_)
LStrip(s) == IF s # <<>> /\ Head(s) \in Spaces THEN LStrip(Tail(s)) ELSE s
RECURSIVE RStrip(_)
RStrip(s) == IF s # <<>> /\ s[Len(s)] \in Spaces THEN RStrip(SubSeq(s, 1, Len(s)-1)) ELSE s
\* str.strip()
Strip(s) == RStrip(LStrip(s))

StartsWith(s, p) == Len(p) <= Len(s) /\ SubSeq(s, 1, Len(p)) = p
EndsWith(s, p) == Len(p) <= Len(s) /\ SubSeq(s, Len(s) - Len(p) + 1, Len(s)) = p
EndsWithAny(s, ps) == \E p \in ps : EndsWith(s, p)

\* sep.join(parts)
RECURSIVE Join(_, _)
Join(parts, sep) ==
    IF parts = <<>> THEN <<>>
    ELSE IF Len(parts) = 1 THEN parts[1]
    ELSE parts[1] \o sep \o Join(Tail(parts), sep)

\* str.split(c) for a single character c
RECURSIVE Split(_, _)
Split(s, c) ==
    IF \A k \in 1..Len(s) : s[k] # c THEN <<s>>
    ELSE LET k == CHOOSE j \in 1..Len(s) : s[j] = c /\ \A h \in 1..(j-1) : s[h] # c
         IN <<SubSeq(s, 1, k-1)>> \o Split(SubSeq(s, k+1, Len(s)), c)

\* Python's < on str: lexicographic by code point
RECURSIVE StrLess(_, _)
StrLess(a, b) ==
    IF b = <<>> THEN FALSE
    ELSE IF a = <<>> THEN TRUE
    ELSE IF Head(a) = Head(b) THEN StrLess(Tail(a), Tail(b))
    ELSE Ord(Head(a)) < Ord(Head(b))

\* sorted() of a set of distinct strings
RECURSIVE Sorted(_)
Sorted(S) ==
    IF S = {} THEN <<>>
    ELSE LET m == CHOOSE x \in S : \A y \in S \ {x} : StrLess(x, y)
         IN <<m>> \o Sorted(S \ {m})

SeqFilter(s, P(_)) ==
    LET F[k \in 0..Len(s)] ==
            IF k = 0 THEN <<>>
            ELSE IF P(s[k]) THEN Append(F[k-1], s[k]) ELSE F[k-1]
    IN F[Len(s)]

SeqMap(s, F(_)) == [k \in 1..Len(s) |-> F(s[k])]
Take(s, n) == SubSeq(s, 1, IF Len(s) < n THEN Len(s) ELSE n)
Range(s) == {s[k] : k \in 1..Len(s)}

\* ----------------------------------------------------------------- values
\* A parsed JSON/YAML value: None, a string, a number (kept as the text
\* str() gives it), a list of values, or a mapping from keys to values.
NoFields == [k \in {} |-> 0]
None == [t |-> "none", s |-> <<>>, l |-> <<>>, d |-> NoFields]
Str(s) == [t |-> "str", s |-> s, l |-> <<>>, d |-> NoFields]
Num(s) == [t |-> "num", s |-> s, l |-> <<>>, d |-> NoFields]
List(l) == [t |-> "list", s |-> <<>>, l |-> l, d |-> NoFields]
Dict(d) == [t |-> "dict", s |-> <<>>, l |-> <<>>, d |-> d]

IsStr(v) == v.t = "str"
IsDict(v) == v.t = "dict"
IsList(v) == v.t = "list"
\* Python truthiness
Truthy(v) ==
    CASE v.t = "none" -> FALSE
      [] v.t = "str" -> v.s # <<>>
      [] v.t = "num" -> v.s # <<"0">>
      [] v.t = "list" -> v.l # <<>>
      [] v.t = "dict" -> DOMAIN v.d # {}
\* a or b
Or(a, b) == IF Truthy(a) THEN a ELSE b
\* a or b or ... : the first truthy value, else the last one
RECURSIVE FirstTruthy(_)
FirstTruthy(vals) ==
    IF Len(vals) = 1 \/ Truthy(Head(vals)) THEN Head(vals) ELSE FirstTruthy(Tail(vals))
\* obj.get(k) on a mapping
Get(obj, k) == IF k \in DOMAIN obj.d THEN obj.d[k] ELSE None
\* str(x)
Repr == <<"{", "}">>
StrOf(v) == IF v.t \in {"str", "num"} THEN v.s ELSE IF v.t = "none" THEN <<"N","o","n","e">> ELSE Repr

escape_html(v) == IF IsStr(v) THEN v.s ELSE <<>>

\* What one value contributes to _first_nonempty: its stripped text, the text
\* of a number, the stripped "@value" of a mapping, else nothing.
NonEmptyText(v) ==
    IF IsStr(v) THEN Strip(v.s)
    ELSE IF v.t = "num" THEN v.s
    ELSE IF IsDict(v) /\ "@value" \in DOMAIN v.d /\ IsStr(v.d["@value"]) THEN Strip(v.d["@value"].s)
    ELSE <<>>
Gets(obj, keys) == [k \in 1..Len(keys) |-> Get(obj, keys[k])]
RECURSIVE _first_nonempty(_)
_first_nonempty(vals) ==
    IF vals = <<>> THEN <<>>
    ELSE IF NonEmptyText(Head(vals)) # <<>> THEN NonEmptyText(Head(vals))
    ELSE _first_nonempty(Tail(vals))

NonBlank(s) == Strip(s) # <<>>
_as_list(val) ==
    IF val.t = "none" THEN <<>>
    ELSE IF IsList(val) THEN
        SeqFilter(SeqMap(val.l, LAMBDA x : Strip(StrOf(x))), NonBlank)
    ELSE IF IsStr(val) /\ Strip(val.s) # <<>> THEN
        SeqFilter(SeqMap(Split(val.s, ","), Strip), NonBlank)
    ELSE <<>>

\* ------------------------------------------------------------------ files
\* A file of the input tree: its name, what a parser makes of its content
\* ("blank": empty after strip(); "json": valid JSON, hence valid YAML too;
\* "yaml": valid YAML that is not JSON; "bad": neither), whether the content
\* starts with { or [, and the value a successful parse yields.
Ext_json == <<".","j","s","o","n">>
Ext_jsonld == <<".","j","s","o","n","l","d">>
Ext_yaml == <<".","y","a","m","l">>
Ext_yml == <<".","y","m","l">>
Ext_txt == <<".","t","x","t">>
Ext_md == <<".","m","d">>
Ext_llm == <<".","l","l","m">>
DataExts == {Ext_json, Ext_yaml, Ext_yml}

JsonLoads(f) == [err |-> f.syntax # "json", val |-> f.payload]
YamlLoad(f) == [err |-> f.syntax \notin {"json", "yaml"}, val |-> f.payload]
\* data = parse(content) or []; return data if isinstance(data, list) else [data]
Wrapped(data) == IF IsList(data) THEN data.l ELSE <<data>>
AlwaysList(v) == Wrapped(Or(v, List(<<>>)))
Parsed(r) == IF r.err THEN <<>> ELSE AlwaysList(r.val)

\* The parser load_data picks from the lower-cased file name
ParserFor(lower, brace) ==
    IF EndsWithAny(lower, {Ext_json, Ext_jsonld}) THEN "json"
    ELSE IF EndsWithAny(lower, {Ext_yaml, Ext_yml}) THEN "yaml"
    ELSE IF EndsWithAny(lower, {Ext_txt, Ext_md, Ext_llm}) THEN (IF brace THEN "json" ELSE "yaml")
    ELSE "none"
LoadWith(parser, f) ==
    IF parser = "json" THEN Parsed(JsonLoads(f))
    ELSE IF parser = "yaml" THEN Parsed(YamlLoad(f))
    ELSE <<>>
load_data(f) ==
    IF f.syntax = "blank" THEN <<>> ELSE LoadWith(ParserFor(Lower(f.name), f.brace), f)

\* os.path.basename, os.path.splitext(...)[0]
Last(parts) == parts[Len(parts)]
BaseName(path) == Last(Split(path, "/"))
\* The positions of the dots that can start an extension (leading dots cannot)
ExtDots(base) == {k \in 2..Len(base) : base[k] = "." /\ \E h \in 1..(k-1) : base[h] # "."}
CutAtLast(base, dots) ==
    IF dots = {} THEN base ELSE SubSeq(base, 1, (CHOOSE k \in dots : \A h \in dots : h <= k) - 1)
SplitExtRoot(base) == CutAtLast(base, ExtDots(base))

_title_from_filename(path) ==
    Title(Strip(ReplaceChar(ReplaceChar(SplitExtRoot(BaseName(path)), "-", " "), "_", " ")))

PlaceholderTitles == {<<"s","e","r","v","i","c","e">>, <<"u","n","n","a","m","e","d"," ","s","e","r","v","i","c","e">>, <<"u","n","t","i","t","l","e","d">>, <<"n","/","a">>, <<"n","a">>, <<"t","b","d">>}
NumberedPrefixes == {<<"s","e","r","v","i","c","e">>, <<"i","t","e","m">>, <<"e","n","t","r","y">>}
\* re.fullmatch(r"(service|item|entry)\s*\d+", t)
SpacesThenDigits(rest) ==
    \E j \in 0..(Len(rest) - 1) :
        /\ \A k \in 1..j : rest[k] \in Spaces
        /\ \A k \in (j+1)..Len(rest) : rest[k] \in Digits
NumberedMatch(t) ==
    \E p \in NumberedPrefixes :
        StartsWith(t, p) /\ SpacesThenDigits(SubSeq(t, Len(p) + 1, Len(t)))

\* A faulty variant of _is_placeholder_title: it knows the fixed words only,
\* not the empty title and not the numbered pattern.
_is_placeholder_exact(text) == Lower(Strip(text)) \in PlaceholderTitles

\* t is text.strip().lower()
PlaceholderText(t) == t = <<>> \/ t \in PlaceholderTitles \/ NumberedMatch(t)
_is_placeholder_title(text) == PlaceholderText(Lower(Strip(text)))

\* ------------------------------------------------------ folder resolution
NoDir == ""
\* Directories that exist implicitly when one of their subdirectories does.
SchemasSubdirs == {"schemas/organization", "schemas/services", "schemas/reviews",
                   "schemas/faqs", "schemas/help-articles", "schemas/locations",
                   "schemas/awards"}
LlmDataSubdirs == {"llm-data/help-articles", "llm-data/help_articles"}
\* os.path.isdir(d) in a directory holding the subdirectories S
IsDir(S, d) ==
    \/ d \in S
    \/ d = "schemas" /\ S \cap SchemasSubdirs # {}
    \/ d = "llm-data" /\ S \cap LlmDataSubdirs # {}

RECURSIVE _first_existing_dir(_, _)
_first_existing_dir(S, candidates) ==
    IF candidates = <<>> THEN NoDir
    ELSE IF Head(candidates) # "" /\ IsDir(S, Head(candidates)) THEN Head(candidates)
    ELSE _first_existing_dir(S, Tail(candidates))

OrgCandidates == <<"schemas/organization", "schemas/organizations", "schemas/company",
                   "schemas/entity", "schemas/business", "organization", "company", "business">>
ServicesCandidates == <<"schemas/services", "services", "practice-areas", "practice_areas">>
ReviewsCandidates == <<"schemas/reviews", "reviews", "testimonials">>
FaqCandidates == <<"schemas/faqs", "faqs", "faq-schemas", "faq_schemas">>
HelpCandidates == <<"schemas/help-articles", "help-articles", "help_articles",
                    "llm-data/help-articles", "llm-data/help_articles">>
LocationsCandidates == <<"schemas/locations", "locations", "offices", "office-locations",
                         "office_locations">>
LlmDataCandidates == <<"llm-data", "llm_data", "llm", "data">>
Categories == {"org", "services", "reviews", "faq", "help", "locations", "llm"}
Candidates(c) ==
    CASE c = "org" -> OrgCandidates
      [] c = "services" -> ServicesCandidates
      [] c = "reviews" -> ReviewsCandidates
      [] c = "faq" -> FaqCandidates
      [] c = "help" -> HelpCandidates
      [] c = "locations" -> LocationsCandidates
      [] c = "llm" -> LlmDataCandidates
\* The module-level globals ORG_DIR, SERVICES_DIR, ...: resolved in the
\* directory S the process is in when the module body runs.
ResolveDirs(S) == [c \in Categories |-> _first_existing_dir(S, Candidates(c))]

\* find_repo_root: walk up from the script's directory (level 1), at most
\* MaxUp levels, to the first directory holding a marker folder.
MaxUp == 5
Markers == {"schemas", "faq-schemas", "organization", "locations", "llm-data"}
HasMarker(S) == \E m \in Markers : IsDir(S, m)
Lowest(hits) == IF hits = {} THEN 1 ELSE CHOOSE L \in hits : \A h \in hits : L <= h
find_repo_root(tree) ==
    Lowest({L \in 1..(IF Len(tree) < MaxUp THEN Len(tree) ELSE MaxUp) : HasMarker(tree[L])})

\* The directories the input trees of the model are built from, and their paths as text.
AllDirs == {"schemas/services", "services", "company", "locations", "faq-schemas", "schemas/awards", "reviews", "help-articles", "llm-data"}
DirPath ==
    ("schemas/services" :> <<"s","c","h","e","m","a","s","/","s","e","r","v","i","c","e","s">>)
    @@ ("services" :> <<"s","e","r","v","i","c","e","s">>)
    @@ ("company" :> <<"c","o","m","p","a","n","y">>)
    @@ ("locations" :> <<"l","o","c","a","t","i","o","n","s">>)
    @@ ("faq-schemas" :> <<"f","a","q","-","s","c","h","e","m","a","s">>)
    @@ ("schemas/awards" :> <<"s","c","h","e","m","a","s","/","a","w","a","r","d","s">>)
    @@ ("reviews" :> <<"r","e","v","i","e","w","s">>)
    @@ ("help-articles" :> <<"h","e","l","p","-","a","r","t","i","c","l","e","s">>)
    @@ ("llm-data" :> <<"l","l","m","-","d","a","t","a">>)

\* ------------------------------------------------------------------ pages
Pages == <<"index.html", "about.html", "services.html", "awards.html",
           "testimonials.html", "faqs.html", "help.html", "contact.html">>
PageSet == Range(Pages)

NoQuick == [shown |-> FALSE, name |-> <<>>, phone |-> <<>>, email |-> <<>>]
\* What an output path holds: st is "absent", "old" (a file left by an earlier
\* run), "dir" (a directory of that name), "empty" (opened for writing, nothing
\* written) or "written"; a written page carries the site name of its shell,
\* its placeholder text if any, its cards in order and its Quick Contact block.
\* icon is the href of its favicon link; stamp stands for the "Last updated"
\* line of the footer: the run that wrote the page.
PathState(st) ==
    [st |-> st, site |-> <<>>, icon |-> <<>>, ph |-> "", cards |-> <<>>, quick |-> NoQuick, stamp |-> 0]
Row(k, v) == [k |-> k, v |-> v]
RowIf(k, v) == IF v # <<>> THEN <<Row(k, v)>> ELSE <<>>
Card(title, rows) == [title |-> title, rows |-> rows]

\* The files of directory d under the directory the process is in.
ListDir(w, cur, d) == w.files[d]
\* sorted(os.listdir(d)) as a sequence of files
FilesNamed(F, names) == [k \in 1..Len(names) |-> CHOOSE f \in F : f.name = names[k]]
SortedFiles(F) == FilesNamed(F, Sorted({f.name : f \in F}))
HasDataExt(f) == EndsWithAny(Lower(f.name), DataExts)

\* ------------------------------------------------------ organization meta
\* repo_slug.split("/", 1)[-1].replace("-", " ").title()
AfterFirst(parts) == IF Len(parts) = 1 THEN parts[1] ELSE Join(Tail(parts), <<"/">>)
RepoName(slug) == Title(ReplaceChar(AfterFirst(Split(slug, "/")), "-", " "))

\* A faulty variant of FirstLoaded: the last such file wins.
RECURSIVE LastLoaded(_)
LastLoaded(fs) ==
    IF fs = <<>> THEN <<>>
    ELSE IF LastLoaded(Tail(fs)) # <<>> THEN LastLoaded(Tail(fs))
    ELSE IF HasDataExt(Head(fs)) /\ load_data(Head(fs)) # <<>> THEN load_data(Head(fs))
    ELSE <<>>
\* The first file, in sorted order, with a data extension whose load is not empty.
RECURSIVE FirstLoaded(_)
FirstLoaded(fs) ==
    IF fs = <<>> THEN <<>>
    ELSE IF HasDataExt(Head(fs)) /\ load_data(Head(fs)) # <<>> THEN load_data(Head(fs))
    ELSE FirstLoaded(Tail(fs))
FirstOr(data, dflt) == IF data = <<>> THEN dflt ELSE data[1]

NoOrgMeta(err, name) == [err |-> err, name |-> name, logo |-> <<>>, favicon |-> <<>>, website |-> <<>>]
NameOr(name, fallback) == IF name # <<>> THEN name ELSE fallback
\* The fields load_org_meta reads off the organization record
OrgMeta(org_obj, fallback) ==
    IF ~IsDict(org_obj) THEN NoOrgMeta(FALSE, fallback)
    ELSE [err |-> FALSE,
          name |-> NameOr(_first_nonempty(Gets(org_obj, <<"entity_name", "name", "legal_name",
                                                          "brand", "site_title">>)), fallback),
          logo |-> _first_nonempty(Gets(org_obj, <<"logo_url", "logo">>)),
          favicon |-> _first_nonempty(Gets(org_obj, <<"favicon", "favicon_url">>)),
          website |-> _first_nonempty(Gets(org_obj, <<"website", "url">>))]
SiteFallback(env) == IF env # <<>> THEN RepoName(env) ELSE <<"S","i","t","e">>

load_org_meta(w, dirs, cur) ==
    IF dirs["org"] = NoDir THEN NoOrgMeta(FALSE, SiteFallback(w.env))
    ELSE IF ~IsDir(w.tree[cur], dirs["org"]) THEN NoOrgMeta(TRUE, <<>>)
    ELSE OrgMeta(FirstOr(FirstLoaded(SortedFiles(ListDir(w, cur, dirs["org"]))), None),
                 SiteFallback(w.env))

\* What the body of a renderer comes to before it opens its output file:
\* whether it raised, else the placeholder text, cards and Quick Contact block
\* it hands to generate_page.
Body(ph, cards, quick) == [err |-> FALSE, ph |-> ph, cards |-> cards, quick |-> quick]
BodyRaised == [err |-> TRUE, ph |-> "", cards |-> <<>>, quick |-> NoQuick]

\* What a renderer leaves behind: whether it raised, whether it had opened its
\* output file by then, and the page it wrote.
Raised(opened) == [err |-> TRUE, opened |-> opened, page |-> PathState("empty")]
\* favicon_href = org.get("favicon") or "favicon.ico"
DefaultIcon == <<"f","a","v","i","c","o","n",".","i","c","o">>
\* with open(out, "w") as f: f.write(generate_page(title, content))
\* The file is opened before generate_page runs load_org_meta (org is its
\* result); now is what the clock gives for the footer.
generate_page(org, body, now) ==
    IF org.err THEN Raised(TRUE)
    ELSE [err |-> FALSE, opened |-> TRUE,
          page |-> [st |-> "written", site |-> org.name,
                    icon |-> NameOr(org.favicon, DefaultIcon), ph |-> body.ph,
                    cards |-> body.cards, quick |-> body.quick, stamp |-> now]]

\* ----------------------------------------------------------- field guesses
_guess_description(obj) ==
    _first_nonempty(Gets(obj, <<"description", "summary", "details", "body", "content",
                                "answer", "copy">>))
_guess_price(obj) ==
    NameOr(_first_nonempty(Gets(obj, <<"price", "price_range", "starting_price",
                                       "min_price", "cost", "fee">>)),
           <<"C","o","n","t","a","c","t"," ","f","o","r"," ","p","r","i","c","i","n","g">>)

\* Concatenation of F(x) over the elements x of s, in order
Flat(s, F(_)) ==
    LET G[k \in 0..Len(s)] == IF k = 0 THEN <<>> ELSE G[k-1] \o F(s[k]) IN G[Len(s)]

\* -------------------------------------------------------------- services
\* The title of one service record of file fn.
\* if _is_placeholder_title(title): title = fallback
TitleOr(title, fallback) == IF _is_placeholder_title(title) THEN fallback ELSE title
\* if _is_placeholder_title(title_candidate) and kws: " / ".join(kws[:2]).title()
KeywordTitle(title_candidate, kws) ==
    IF _is_placeholder_title(title_candidate) /\ kws # <<>>
    THEN Title(Join(Take(kws, 2), <<" ", "/", " ">>))
    ELSE title_candidate
ServiceTitle(svc, fn) ==
    TitleOr(KeywordTitle(_first_nonempty(Gets(svc, <<"title", "service_name", "name">>)),
                         _as_list(Get(svc, "keywords"))),
            _title_from_filename(fn))

ServiceCard(svc, fn) ==
    Card(ServiceTitle(svc, fn),
         RowIf("description", _guess_description(svc)) \o <<Row("price", _guess_price(svc))>>)

\* for rec in records: a mapping with a list under "services" is expanded
ExpandServices(records) ==
    Flat(records, LAMBDA rec : IF IsDict(rec) /\ IsList(Get(rec, "services"))
                               THEN Get(rec, "services").l ELSE <<rec>>)

ServiceCardsOfFile(f) ==
    IF ~HasDataExt(f) THEN <<>>
    ELSE Flat(ExpandServices(load_data(f)),
              LAMBDA svc : IF IsDict(svc) THEN <<ServiceCard(svc, f.name)>> ELSE <<>>)

\* The body of a page of cards: the placeholder ph stands in when there is no card.
ItemsBody(ph, items, quick) == Body(IF items = <<>> THEN ph ELSE "", items, quick)

PH_services_nodir == "No services folder found yet."
PH_services_none == "No usable services found yet."

generate_services_page(w, dirs, cur) ==
    IF dirs["services"] = NoDir THEN
        Body(PH_services_nodir, <<>>, NoQuick)
    ELSE IF ~IsDir(w.tree[cur], dirs["services"]) THEN BodyRaised
    ELSE ItemsBody(PH_services_none,
                   Flat(SortedFiles(ListDir(w, cur, dirs["services"])), ServiceCardsOfFile), NoQuick)

\* ---------------------------------------------------------------- awards
awards_dir == "schemas/awards"
awards_path == <<"s","c","h","e","m","a","s","/","a","w","a","r","d","s","/">>
_guess_title(obj, filename) ==
    TitleOr(_first_nonempty(Gets(obj, <<"title", "award_name", "certification_name",
                "accreditation_name", "license_name", "name", "issuer", "organization">>)),
            _title_from_filename(filename))

AwardCard(aw, filepath) ==
    Card(_guess_title(aw, filepath),
         RowIf("description", _first_nonempty(Gets(aw, <<"description", "summary", "details", "notes">>)))
         \o RowIf("date", _first_nonempty(Gets(aw, <<"date", "awarded_date", "year">>)))
         \o RowIf("issuer", _first_nonempty(Gets(aw, <<"issuer", "awarding_body", "organization">>))))

\* file.endswith(...) here is applied to the name as it is, not lower-cased
AwardCardsOfFile(f) ==
    IF ~EndsWithAny(f.name, DataExts) THEN <<>>
    ELSE Flat(load_data(f),
              LAMBDA aw : IF IsDict(aw) THEN <<AwardCard(aw, awards_path \o f.name)>> ELSE <<>>)

PH_awards == "No awards have been published yet."

generate_awards_page(w, dirs, cur) ==
    IF ~IsDir(w.tree[cur], awards_dir) THEN
        Body(PH_awards, <<>>, NoQuick)
    ELSE ItemsBody(PH_awards, Flat(SortedFiles(ListDir(w, cur, awards_dir)), AwardCardsOfFile), NoQuick)

\* ---------------------------------------------------------- testimonials
IsDigits(s) == s # <<>> /\ \A k \in 1..Len(s) : s[k] \in Digits
RECURSIVE IntOf(_)
IntOf(s) ==
    IF s = <<>> THEN 0
    ELSE 10 * IntOf(SubSeq(s, 1, Len(s) - 1))
         + (CHOOSE d \in 0..9 : s[Len(s)] = <<"0","1","2","3","4","5","6","7","8","9">>[d + 1])
\* float(x) for the texts of the model: digits, digits with one decimal,
\* either with a leading minus, and the words nan and -inf; anything else
\* raises. A finite value is given in tenths.
NoFloat == [err |-> TRUE, kind |-> "none", tenths |-> 0]
Finite(tenths) == [err |-> FALSE, kind |-> "finite", tenths |-> tenths]
Unsigned(t) ==
    IF IsDigits(t) THEN Finite(10 * IntOf(t))
    ELSE IF Len(t) >= 3 /\ t[Len(t) - 1] = "." /\ IsDigits(SubSeq(t, 1, Len(t) - 2))
            /\ IsDigits(<<t[Len(t)]>>)
         THEN Finite(10 * IntOf(SubSeq(t, 1, Len(t) - 2)) + IntOf(<<t[Len(t)]>>))
    ELSE NoFloat
Negated(f) == IF f.err THEN f ELSE Finite(0 - f.tenths)
FloatText(t) ==
    IF t = <<"n","a","n">> THEN [err |-> FALSE, kind |-> "nan", tenths |-> 0]
    ELSE IF t = <<"-","i","n","f">> THEN [err |-> FALSE, kind |-> "ninf", tenths |-> 0]
    ELSE IF t # <<>> /\ Head(t) = "-" THEN Negated(Unsigned(Tail(t)))
    ELSE Unsigned(t)
FloatOf(v) ==
    IF v.t = "num" THEN FloatText(v.s)
    ELSE IF IsStr(v) THEN FloatText(Strip(v.s))
    ELSE NoFloat
\* A faulty variant of Trunc: to the nearest integer
TruncRounded(tenths) == IF tenths >= 0 THEN (tenths + 5) \div 10 ELSE 0 - ((5 - tenths) \div 10)
\* int(f): towards zero; raises on nan and on an infinity
Trunc(tenths) == IF tenths >= 0 THEN tenths \div 10 ELSE 0 - ((0 - tenths) \div 10)
\* max(1, min(5, rating))
Clamp(r) == IF r < 1 THEN 1 ELSE IF r > 5 THEN 5 ELSE r
\* try: rating = int(float(rev.get("rating", 5))) except Exception: rating = 5
ReviewStars(f) == IF f.err \/ f.kind # "finite" THEN 5 ELSE Clamp(Trunc(f.tenths))
\* c * n: empty when n is not positive
Times(c, n) == [k \in 1..n |-> c]
StarRow(filled) == Times("*", filled) \o Times("o", 5 - filled)

ReviewCard(rev) ==
    Card(_first_nonempty(<<Get(rev, "customer_name"), Get(rev, "author"), Str(<<"A","n","o","n","y","m","o","u","s">>)>>),
         <<Row("quote", _first_nonempty(<<Get(rev, "review_body"), Get(rev, "quote"),
                          Get(rev, "review_title"), Str(<<"N","o"," ","r","e","v","i","e","w"," ","t","e","x","t"," ","p","r","o","v","i","d","e","d",".">>)>>))>>
         \o RowIf("entity", _first_nonempty(<<Get(rev, "entity_name")>>))
         \o RowIf("date", _first_nonempty(<<Get(rev, "date")>>))
         \o <<Row("stars", StarRow(ReviewStars(FloatOf(Get(rev, "rating")))))>>)

ReviewCardsOfFile(f) ==
    IF ~HasDataExt(f) THEN <<>>
    ELSE Flat(load_data(f), LAMBDA rev : IF IsDict(rev) THEN <<ReviewCard(rev)>> ELSE <<>>)

PH_reviews_nodir == "No reviews folder found yet."
PH_reviews_none == "No usable reviews found yet."

generate_testimonials_page(w, dirs, cur) ==
    IF dirs["reviews"] = NoDir THEN
        Body(PH_reviews_nodir, <<>>, NoQuick)
    ELSE IF ~IsDir(w.tree[cur], dirs["reviews"]) THEN BodyRaised
    ELSE ItemsBody(PH_reviews_none,
                   Flat(SortedFiles(ListDir(w, cur, dirs["reviews"])), ReviewCardsOfFile), NoQuick)

\* ------------------------------------------------------------------ faqs
\* (item.get(k) or "").strip(): raises AttributeError when the value is
\* truthy and not a string
StripOf(x) == [err |-> ~IsStr(x), val |-> IF IsStr(x) THEN Strip(x.s) ELSE <<>>]
StripOrEmpty(v) == StripOf(Or(v, Str(<<>>)))

FaqItemRaises(item) ==
    StripOrEmpty(Get(item, "question")).err \/ StripOrEmpty(Get(item, "answer")).err
\* if q: items_html.append(...)
QACard(question, answer) ==
    IF question = <<>> THEN <<>> ELSE <<Card(question, <<Row("answer", answer)>>)>>
FaqCard(item) ==
    QACard(StripOrEmpty(Get(item, "question")).val, StripOrEmpty(Get(item, "answer")).val)

FaqItemsOfFile(f) ==
    IF ~HasDataExt(f) THEN <<>> ELSE SeqFilter(load_data(f), IsDict)

PH_faq_nodir == "No FAQ folder found yet."
PH_faq_none == "No usable FAQs found yet."

\* The loop over the mappings of every file, in order: the first one whose
\* question or answer cannot be stripped ends the renderer.
FaqBody(records) ==
    IF \E k \in 1..Len(records) : FaqItemRaises(records[k]) THEN BodyRaised
    ELSE ItemsBody(PH_faq_none, Flat(records, FaqCard), NoQuick)

generate_faq_page(w, dirs, cur) ==
    IF dirs["faq"] = NoDir THEN
        Body(PH_faq_nodir, <<>>, NoQuick)
    ELSE IF ~IsDir(w.tree[cur], dirs["faq"]) THEN BodyRaised
    ELSE FaqBody(Flat(SortedFiles(ListDir(w, cur, dirs["faq"])), FaqItemsOfFile))

\* --------------------------------------------------------------- contact
_normalize_records(payload) ==
    IF IsList(payload) THEN payload.l
    ELSE IF IsDict(payload) THEN
        IF IsList(Get(payload, "locations")) THEN Get(payload, "locations").l
        ELSE IF IsList(Get(payload, "services")) THEN Get(payload, "services").l
        ELSE IF IsList(Get(payload, "faqs")) THEN Get(payload, "faqs").l
        ELSE <<payload>>
    ELSE <<>>

\* (obj.get(k) or {}).get(sub): raises AttributeError when obj[k] is truthy
\* and not a mapping
GetOf(x, sub) == [err |-> ~IsDict(x), val |-> IF IsDict(x) THEN Get(x, sub) ELSE None]
SubGet(obj, k, sub) == GetOf(Or(Get(obj, k), Dict(NoFields)), sub)

MapsQuery == <<"h","t","t","p","s",":","/","/","w","w","w",".","g","o","o","g","l","e",".","c","o","m","/","m","a","p","s","?","q","=">>
MapsEmbed == <<"&","o","u","t","p","u","t","=","e","m","b","e","d">>
MapsZoom == <<"&","z","=","1","5">>
\* urllib.parse.quote_plus on the characters of the model
quote_plus(s) == ReplaceChar(s, " ", "+")

\* lat = loc.get("latitude") or (loc.get("geo") or {}).get("latitude")
Coord(top, geo) == [err |-> ~Truthy(top) /\ geo.err, val |-> IF Truthy(top) THEN top ELSE geo.val]
MapSrc(lat, lng, map_url, gmaps, address) ==
    [err |-> lat.err \/ lng.err,
     val |-> IF lat.err \/ lng.err THEN <<>>
             ELSE IF lat.val.t = "num" /\ lng.val.t = "num"
                  THEN MapsQuery \o lat.val.s \o <<",">> \o lng.val.s \o MapsZoom \o MapsEmbed
             ELSE IF map_url # <<>> THEN map_url
             ELSE IF gmaps # <<>> THEN gmaps
             ELSE IF address # <<>> THEN MapsQuery \o quote_plus(address) \o MapsEmbed
             ELSE <<>>]
_map_embed_src(loc, address) ==
    MapSrc(Coord(Get(loc, "latitude"), SubGet(loc, "geo", "latitude")),
           Coord(Get(loc, "longitude"), SubGet(loc, "geo", "longitude")),
           _first_nonempty(Gets(loc, <<"map_embed_url", "map", "map_iframe">>)),
           _first_nonempty(Gets(loc, <<"google_maps_url", "maps_url", "map_url">>)),
           address)

\* " ".join of the non-empty parts [line1, line2, "city, state", zip], stripped
NotEmpty(p) == p # <<>>
\* A faulty variant of AddressParts: the comma is put between city and state
\* even when one of them is missing.
AddressPartsAlwaysComma(line1, line2, city, state, zipc) ==
    Strip(Join(SeqFilter(<<line1, line2,
                           IF city # <<>> \/ state # <<>> THEN city \o <<",", " ">> \o state ELSE <<>>,
                           zipc>>, NotEmpty), <<" ">>))
AddressParts(line1, line2, city, state, zipc) ==
    Strip(Join(SeqFilter(<<line1, line2, Join(SeqFilter(<<city, state>>, NotEmpty), <<",", " ">>),
                           zipc>>, NotEmpty), <<" ">>))

AddressOf(addr, loc) ==
    IF IsStr(addr) /\ Strip(addr.s) # <<>> THEN Strip(addr.s)
    ELSE IF IsDict(addr) THEN
        AddressParts(_first_nonempty(Gets(addr, <<"streetAddress", "address1", "addressLine1">>)),
                     _first_nonempty(Gets(addr, <<"address2", "addressLine2", "suite">>)),
                     _first_nonempty(Gets(addr, <<"addressLocality", "city">>)),
                     _first_nonempty(Gets(addr, <<"addressRegion", "state">>)),
                     _first_nonempty(Gets(addr, <<"postalCode", "zip", "zipCode">>)))
    ELSE
        AddressParts(_first_nonempty(Gets(loc, <<"address_street", "streetAddress", "street">>)),
                     _first_nonempty(Gets(loc, <<"address2", "suite">>)),
                     _first_nonempty(Gets(loc, <<"address_city", "city">>)),
                     _first_nonempty(Gets(loc, <<"address_state", "state", "addressRegion">>)),
                     _first_nonempty(Gets(loc, <<"address_postal_code", "postalCode", "zip">>)))
_format_address(loc) == AddressOf(Get(loc, "address"), loc)

\* The free-text hours field (the structured day/open/close list is not modelled)
_extract_hours(loc) ==
    _first_nonempty(Gets(loc, <<"hours", "openingHours", "opening_hours", "business_hours">>))

LocName(loc) == _first_nonempty(<<Get(loc, "entity_name"), Get(loc, "location_name"),
                                  Get(loc, "name"), Str(<<"L","o","c","a","t","i","o","n">>)>>)
LocPhone(loc) == _first_nonempty(<<Get(loc, "phone"), Get(loc, "telephone"),
                                   SubGet(loc, "contactPoint", "telephone").val>>)
LocEmail(loc) == _first_nonempty(<<Get(loc, "email"), SubGet(loc, "contactPoint", "email").val>>)
\* The card of one location (addr is its formatted address): phone and
\* e-mail are not among its rows.
LocCardAt(loc, addr) ==
    Card(LocName(loc),
         RowIf("Contact", _first_nonempty(Gets(loc, <<"contact_person", "contact", "contact_name">>)))
         \o RowIf("Address", addr)
         \o RowIf("Hours", _extract_hours(loc))
         \o RowIf("Website", _first_nonempty(Gets(loc, <<"website", "url", "homepage">>)))
         \o RowIf("Find us", Join(Take(_as_list(FirstTruthy(Gets(loc, <<"sameAs", "same_as", "social",
                                                                       "social_links">>))), 8), <<" ">>))
         \o RowIf("map", _map_embed_src(loc, addr).val))
LocCard(loc) == LocCardAt(loc, _format_address(loc))
\* Whether building the card of loc raises
LocRaises(loc) ==
    SubGet(loc, "contactPoint", "telephone").err \/ _map_embed_src(loc, <<>>).err

LocRecordsOfFile(f) ==
    IF ~HasDataExt(f) \/ load_data(f) = <<>> THEN <<>>
    ELSE SeqFilter(_normalize_records(List(load_data(f))), IsDict)

\* first_phone / first_email: the first non-empty one met over the records
RECURSIVE FirstNonEmpty(_)
FirstNonEmpty(vals) ==
    IF vals = <<>> THEN <<>>
    ELSE IF Head(vals) # <<>> THEN Head(vals) ELSE FirstNonEmpty(Tail(vals))

RECURSIVE LastNonEmpty(_)
LastNonEmpty(vals) ==
    IF vals = <<>> THEN <<>>
    ELSE IF vals[Len(vals)] # <<>> THEN vals[Len(vals)]
    ELSE LastNonEmpty(SubSeq(vals, 1, Len(vals) - 1))

\* if first_name or first_phone or first_email: the Quick Contact block
QuickBlock(first_name, first_phone, first_email) ==
    [shown |-> first_name # <<>> \/ first_phone # <<>> \/ first_email # <<>>,
     name |-> first_name, phone |-> first_phone, email |-> first_email]
\* A faulty variant of QuickContact: every record overwrites the phone and
\* the e-mail, so the block ends up with the last ones met.
QuickContactLast(records) ==
    QuickBlock(FirstNonEmpty(SeqMap(records, LocName)),
               LastNonEmpty(SeqMap(records, LocPhone)),
               LastNonEmpty(SeqMap(records, LocEmail)))
QuickContact(records) ==
    QuickBlock(FirstNonEmpty(SeqMap(records, LocName)),
               FirstNonEmpty(SeqMap(records, LocPhone)),
               FirstNonEmpty(SeqMap(records, LocEmail)))

PH_contact_nodir == "No locations folder found yet."
PH_contact_none == "No usable locations found."

\* The loop over the mappings of every file, in sorted-file order
ContactBody(records) ==
    IF \E k \in 1..Len(records) : LocRaises(records[k]) THEN BodyRaised
    ELSE ItemsBody(PH_contact_none, SeqMap(records, LocCard), QuickContact(records))

generate_contact_page(w, dirs, cur) ==
    IF dirs["locations"] = NoDir THEN
        Body(PH_contact_nodir, <<>>, NoQuick)
    ELSE IF ~IsDir(w.tree[cur], dirs["locations"]) THEN BodyRaised
    ELSE ContactBody(Flat(SortedFiles(ListDir(w, cur, dirs["locations"])), LocRecordsOfFile))

\* ------------------------------------------------------------------ help
\* A markdown file holds its lines as a list of strings.
MdLines(f) == IF IsList(f.payload) THEN SeqMap(SeqFilter(f.payload.l, IsStr), LAMBDA v : v.s) ELSE <<>>
FrontDelim == <<"-","-","-">>
TitleKey == <<"t","i","t","l","e",":">>
AfterColon(line) == Join(Tail(Split(line, ":")), <<":">>)

\* The loop over content.splitlines(): st is [in_frontmatter, frontmatter_done, title, body_lines]
RECURSIVE ParseArticle(_, _)
ParseArticle(lines, st) ==
    IF lines = <<>> THEN st
    ELSE LET line == Head(lines) IN
         IF Strip(line) = FrontDelim /\ ~st.done
         THEN ParseArticle(Tail(lines), [st EXCEPT !.inside = ~st.inside, !.done = st.inside])
         ELSE IF st.inside /\ ~st.done
         THEN ParseArticle(Tail(lines),
                  IF StartsWith(Lower(line), TitleKey)
                  THEN [st EXCEPT !.title = Strip(AfterColon(line))] ELSE st)
         ELSE ParseArticle(Tail(lines), [st EXCEPT !.body = Append(st.body, line)])

HtmlLine(line) ==
    IF StartsWith(line, <<"#", "#", " ">>) THEN Row("h2", SubSeq(line, 4, Len(line)))
    ELSE IF StartsWith(line, <<"#", " ">>) THEN Row("h1", SubSeq(line, 3, Len(line)))
    ELSE IF StartsWith(line, <<"-", " ">>) \/ StartsWith(line, <<"*", " ">>)
         THEN Row("bullet", SubSeq(line, 3, Len(line)))
    ELSE IF Strip(line) = <<>> THEN Row("br", <<>>)
    ELSE Row("p", line)

ArticleCard(st, name) ==
    Card(IF st.title = <<>> THEN _title_from_filename(name) ELSE st.title, SeqMap(st.body, HtmlLine))
HelpArticle(f) ==
    ArticleCard(ParseArticle(MdLines(f), [inside |-> FALSE, done |-> FALSE, title |-> <<>>,
                                          body |-> <<>>]), f.name)

IsMd(f) == EndsWith(Lower(f.name), Ext_md)
MdFiles(F) == SeqFilter(SortedFiles(F), IsMd)

PH_help_nodir == "No help-articles folder found yet."
PH_help_none == "No .md help articles found yet."

\* The folder the help page reads: HELP_DIR, else LLM_DATA_DIR when it is a
\* directory now and holds a .md file, else none.
HelpSource(w, dirs, cur) ==
    IF dirs["help"] # NoDir THEN dirs["help"]
    ELSE IF dirs["llm"] # NoDir /\ IsDir(w.tree[cur], dirs["llm"])
            /\ MdFiles(ListDir(w, cur, dirs["llm"])) # <<>> THEN dirs["llm"]
    ELSE NoDir

HelpBody(md_files) == ItemsBody(PH_help_none, SeqMap(md_files, HelpArticle), NoQuick)
HelpFrom(w, cur, help_source) ==
    IF help_source = NoDir THEN Body(PH_help_nodir, <<>>, NoQuick)
    ELSE HelpBody(IF IsDir(w.tree[cur], help_source)
                  THEN MdFiles(ListDir(w, cur, help_source)) ELSE <<>>)
generate_help_articles_page(w, dirs, cur) == HelpFrom(w, cur, HelpSource(w, dirs, cur))

\* ----------------------------------------------------------------- index
IndexRoots == <<"schemas", "faq-schemas", "organization", "locations", "llm-data">>
ListedExts == {Ext_json, Ext_yaml, Ext_yml, Ext_md, Ext_llm, Ext_txt, <<".","j","s","o","n","l">>}
\* The directories of the model that os.walk(root) visits
Below(S, root) ==
    IF root = "schemas" THEN S \cap SchemasSubdirs
    ELSE IF root = "llm-data" THEN S \cap ({"llm-data"} \cup LlmDataSubdirs)
    ELSE S \cap {root}

SchemasPrefix == <<"s","c","h","e","m","a","s","/">>
\* rel.replace("schemas/", "") when rel starts with "schemas/"
DisplayPath(rel) ==
    IF StartsWith(rel, SchemasPrefix) THEN SubSeq(rel, Len(SchemasPrefix) + 1, Len(rel)) ELSE rel

IndexLinks(w, cur) ==
    UNION {{DirPath[d] \o <<"/">> \o f.name :
               f \in {g \in ListDir(w, cur, d) : EndsWithAny(Lower(g.name), ListedExts)}}
           : d \in UNION {Below(w.tree[cur], r) : r \in {x \in Range(IndexRoots) : IsDir(w.tree[cur], x)}}}

generate_index_page(w, dirs, cur, org) ==
    IF org.err THEN BodyRaised
    ELSE Body("",
                       SeqMap(Sorted(IndexLinks(w, cur)), LAMBDA rel : Card(DisplayPath(rel), <<>>)),
                       NoQuick)

\* ----------------------------------------------------------------- about
\* The record the About body is built from: the first file with a data
\* extension, in sorted order, is the only one looked at.
FirstRecord(withExt) ==
    IF withExt = <<>> THEN None ELSE FirstOr(load_data(withExt[1]), None)
AboutOrg(fs) == FirstRecord(SeqFilter(fs, HasDataExt))

\* Decimal text of a small natural number
DigitChars == <<"0","1","2","3","4","5","6","7","8","9">>
RECURSIVE Dec(_)
Dec(n) == IF n < 10 THEN <<DigitChars[n + 1]>> ELSE Dec(n \div 10) \o <<DigitChars[(n % 10) + 1]>>

AboutServiceRecords(f) ==
    IF ~HasDataExt(f) THEN <<>>
    ELSE SeqFilter(Flat(load_data(f), _normalize_records), IsDict)
AboutLocations(f) ==
    IF ~HasDataExt(f) THEN <<>> ELSE SeqFilter(load_data(f), IsDict)
AreasOf(loc) ==
    Range(_as_list(FirstTruthy(Gets(loc, <<"service_areas", "areas", "locations_served">>))))

DictOr(org) == IF IsDict(org) THEN org ELSE Dict(NoFields)
LocPhoneTop(loc) == _first_nonempty(<<Get(loc, "phone"), Get(loc, "telephone")>>)
LocEmailTop(loc) == _first_nonempty(<<Get(loc, "email")>>)
AreasOfAll(locs) == UNION {AreasOf(locs[k]) : k \in 1..Len(locs)}
\* float(rev.get("rating")): the tenths of a finite rating that is above 0;
\* 0 stands for a value float() rejects (the exception is swallowed) as well
\* as for one that fails r > 0, as nan and -inf do.
RatingOf(rev) ==
    IF FloatOf(Get(rev, "rating")).kind = "finite" /\ FloatOf(Get(rev, "rating")).tenths > 0
    THEN FloatOf(Get(rev, "rating")).tenths ELSE 0
Positive(r) == r > 0
AboutRatings(f) ==
    IF ~HasDataExt(f) THEN <<>>
    ELSE SeqFilter(SeqMap(SeqFilter(load_data(f), IsDict), RatingOf), Positive)
RECURSIVE Sum(_)
Sum(rs) == IF rs = <<>> THEN 0 ELSE Head(rs) + Sum(Tail(rs))
\* a / n rounded to the nearest integer, a tie going to the even one: what
\* round() and the .1f format do with a value that is exact in binary, as
\* every tie of fewer than 10 ratings that are multiples of 0.5 is
RoundHalfEven(a, n) ==
    IF 2 * (a % n) < n THEN a \div n
    ELSE IF 2 * (a % n) > n THEN (a \div n) + 1
    ELSE IF (a \div n) % 2 = 0 THEN a \div n ELSE (a \div n) + 1
\* f"{avg_rating:.1f}" from the tenths
OneDecimal(tenths) == Dec(tenths \div 10) \o <<".">> \o Dec(tenths % 10)
\* if avg_rating is not None: the mean to one decimal and the star row
\* (ratings are in tenths)
RatingRows(ratings) ==
    IF ratings = <<>> THEN <<>>
    ELSE <<Row("Average rating", OneDecimal(RoundHalfEven(Sum(ratings), Len(ratings)))),
           Row("Stars", StarRow(RoundHalfEven(Sum(ratings), 10 * Len(ratings))))>>

AboutCard(display_name, logo_url, desc, service_titles, rating_rows, service_areas, phone, email, website) ==
    Card(display_name,
         RowIf("logo", logo_url)
         \o <<Row("description", IF desc # <<>> THEN desc ELSE display_name)>>
         \o (IF service_titles # <<>> THEN <<Row("Services offered", Dec(Len(service_titles)))>> ELSE <<>>)
         \o rating_rows
         \o RowIf("Service areas", Join(Take(Sorted(service_areas), 10), <<",", " ">>))
         \o RowIf("Phone", phone)
         \o RowIf("Email", email)
         \o RowIf("Website", website))
\* The About body from the organization record, the site meta, the service
\* records and the location records
AboutBody(orgd, org_meta, service_titles, ratings, locs) ==
    Body("",
         <<AboutCard(NameOr(_first_nonempty(<<Get(orgd, "entity_name"), Get(orgd, "name"),
                                              Str(org_meta.name)>>),
                            <<"A","b","o","u","t"," ","U","s">>),
                     _first_nonempty(<<Get(orgd, "logo_url"), Get(orgd, "logo"), Str(org_meta.logo)>>),
                     _first_nonempty(<<Get(orgd, "description"), Get(orgd, "about")>>),
                     service_titles,
                     RatingRows(ratings),
                     AreasOfAll(locs),
                     FirstNonEmpty(SeqMap(locs, LocPhoneTop)),
                     FirstNonEmpty(SeqMap(locs, LocEmailTop)),
                     _first_nonempty(<<Get(orgd, "website"), Get(orgd, "url"), Str(org_meta.website)>>))>>,
         NoQuick)
\* A folder global that was resolved but is no directory where the process is now
Stale(w, dirs, cur, c) == dirs[c] # NoDir /\ ~IsDir(w.tree[cur], dirs[c])

\* order: the order os.listdir hands the locations files over (not sorted here)
\* org_meta: what load_org_meta() returns
generate_about_page(w, dirs, cur, order, org_meta) ==
    IF org_meta.err \/ Stale(w, dirs, cur, "services") \/ Stale(w, dirs, cur, "locations")
       \/ Stale(w, dirs, cur, "reviews") THEN BodyRaised
    ELSE AboutBody(DictOr(IF dirs["org"] = NoDir THEN None
                          ELSE AboutOrg(SortedFiles(ListDir(w, cur, dirs["org"])))),
                   org_meta,
                   IF dirs["services"] = NoDir THEN <<>>
                   ELSE Flat(SortedFiles(ListDir(w, cur, dirs["services"])), AboutServiceRecords),
                   IF dirs["reviews"] = NoDir THEN <<>>
                   ELSE Flat(SortedFiles(ListDir(w, cur, dirs["reviews"])), AboutRatings),
                   IF dirs["locations"] = NoDir THEN <<>> ELSE Flat(order, AboutLocations))

\* ------------------------------------------------------------ input trees
\* services
s_bad ==
    [name |-> <<"a","-","b","a","d",".","j","s","o","n">>, syntax |-> "bad", brace |-> TRUE,
     payload |-> None]
s_roof ==
    [name |-> <<"r","o","o","f","-","r","e","p","a","i","r",".","j","s","o","n">>, syntax |-> "json", brace |-> TRUE,
     payload |-> Dict([title |-> Str(<<"R","o","o","f"," ","R","e","p","a","i","r">>), price |-> Num(<<"1","0","0">>), description |-> Str(<<"W","e"," ","f","i","x"," ","r","o","o","f","s">>)])]
s_item ==
    [name |-> <<"g","u","t","t","e","r","_","c","l","e","a","n","i","n","g",".","y","a","m","l">>, syntax |-> "yaml", brace |-> FALSE,
     payload |-> Dict([title |-> Str(<<"I","t","e","m"," ","3">>)])]
s_kw ==
    [name |-> <<"k","w",".","j","s","o","n">>, syntax |-> "json", brace |-> TRUE,
     payload |-> Dict([name |-> Str(<<"S","e","r","v","i","c","e">>), keywords |-> List(<<Str(<<"g","u","t","t","e","r">>), Str(<<"d","r","a","i","n">>), Str(<<"p","i","p","e">>)>>)])]
s_wrap ==
    [name |-> <<"a","l","l",".","j","s","o","n">>, syntax |-> "json", brace |-> TRUE,
     payload |-> Dict([services |-> List(<<Dict([title |-> Str(<<"P","a","i","n","t">>)]), Dict([service_name |-> Str(<<"T","B","D">>)])>>)])]
s_list ==
    [name |-> <<"l","i","s","t",".","y","m","l">>, syntax |-> "yaml", brace |-> FALSE,
     payload |-> List(<<Dict([title |-> Str(<<" ">>)]), Str(<<"o","o","p","s">>), Dict([name |-> Str(<<"e","n","t","r","y"," "," ","1","2">>), keywords |-> Str(<<"n","/","a">>)])>>)]
s_zbad ==
    [name |-> <<"z","z","-","b","a","d",".","y","a","m","l">>, syntax |-> "bad", brace |-> FALSE,
     payload |-> None]
s_txt ==
    [name |-> <<"p","l","u","m","b","i","n","g",".","t","x","t">>, syntax |-> "json", brace |-> TRUE,
     payload |-> Dict([title |-> Str(<<"P","l","u","m","b","i","n","g">>), price |-> Num(<<"8","0">>)])]
ServicesPool == {s_bad, s_roof, s_item, s_kw, s_wrap, s_list, s_zbad, s_txt}
\* awards
a_best ==
    [name |-> <<"b","e","s","t",".","j","s","o","n">>, syntax |-> "json", brace |-> TRUE,
     payload |-> Dict([title |-> Str(<<"B","e","s","t"," ","F","i","r","m">>), year |-> Num(<<"2","0","2","4">>)])]
a_na ==
    [name |-> <<"t","o","p","-","f","i","r","m","-","2","0","2","4",".","j","s","o","n">>, syntax |-> "json", brace |-> TRUE,
     payload |-> List(<<Dict([title |-> Str(<<"N","/","A">>), issuer |-> Str(<<"C","h","a","m","b","e","r">>)]), Dict([award_name |-> Str(<<"G","o","l","d">>)])>>)]
a_issuer ==
    [name |-> <<"x",".","y","m","l">>, syntax |-> "yaml", brace |-> FALSE,
     payload |-> Dict([issuer |-> Str(<<"G","u","i","l","d">>)])]
a_upper ==
    [name |-> <<"U","P",".","J","S","O","N">>, syntax |-> "json", brace |-> TRUE,
     payload |-> Dict([title |-> Str(<<"U","p","p","e","r">>)])]
a_bad ==
    [name |-> <<"b","a","d",".","y","a","m","l">>, syntax |-> "bad", brace |-> FALSE,
     payload |-> None]
AwardsPool == {a_best, a_na, a_issuer, a_upper, a_bad}
\* faqs
f_two ==
    [name |-> <<"a",".","j","s","o","n">>, syntax |-> "json", brace |-> TRUE,
     payload |-> List(<<Dict([question |-> Str(<<"Q","1">>), answer |-> Str(<<"A","1">>)]), Dict([question |-> Str(<<" ","Q","2"," ">>)])>>)]
f_wrap ==
    [name |-> <<"f","a","q","s",".","j","s","o","n">>, syntax |-> "json", brace |-> TRUE,
     payload |-> Dict([faqs |-> List(<<Dict([question |-> Str(<<"Q","3">>), answer |-> Str(<<"A","3">>)])>>)])]
f_num ==
    [name |-> <<"b",".","j","s","o","n">>, syntax |-> "json", brace |-> TRUE,
     payload |-> List(<<Dict([question |-> Num(<<"5">>), answer |-> Str(<<"A","5">>)]), Dict([question |-> Str(<<"Q","4">>), answer |-> Str(<<"A","4">>)])>>)]
f_noq ==
    [name |-> <<"c",".","y","a","m","l">>, syntax |-> "yaml", brace |-> FALSE,
     payload |-> List(<<Dict([answer |-> Str(<<"A","6">>)]), Dict([question |-> Str(<<"Q","7">>), answer |-> List(<<Str(<<"x">>)>>)])>>)]
f_bad ==
    [name |-> <<"b","a","d",".","j","s","o","n">>, syntax |-> "bad", brace |-> TRUE,
     payload |-> None]
f_md ==
    [name |-> <<"m","o","r","e",".","m","d">>, syntax |-> "yaml", brace |-> FALSE,
     payload |-> List(<<Dict([question |-> Str(<<"Q","8">>), answer |-> Str(<<"A","8">>)])>>)]
f_llm ==
    [name |-> <<"b","o","t",".","l","l","m">>, syntax |-> "json", brace |-> TRUE,
     payload |-> Dict([question |-> Str(<<"Q","9">>), answer |-> Str(<<"A","9">>)])]
FaqPool == {f_two, f_wrap, f_num, f_noq, f_bad, f_md, f_llm}
\* locations
l_hq ==
    [name |-> <<"h","q",".","j","s","o","n">>, syntax |-> "json", brace |-> TRUE,
     payload |-> Dict([name |-> Str(<<"H","Q">>), phone |-> Str(<<"1","1","1">>), email |-> Str(<<"a","@","x">>), address |-> Str(<<"1"," ","M","a","i","n"," ","S","t">>), contact |-> Str(<<"A","n","n">>)])]
l_two ==
    [name |-> <<"b","r","a","n","c","h","e","s",".","y","a","m","l">>, syntax |-> "yaml", brace |-> FALSE,
     payload |-> List(<<Dict([name |-> Str(<<"B">>), phone |-> Str(<<" ">>), telephone |-> Str(<<"2","2","2">>)]), Dict([location_name |-> Str(<<"C">>), email |-> Str(<<"c","@","x">>), phone |-> Str(<<"3","3","3">>)])>>)]
l_wrap ==
    [name |-> <<"a","l","l",".","j","s","o","n">>, syntax |-> "json", brace |-> TRUE,
     payload |-> Dict([locations |-> List(<<Dict([name |-> Str(<<"W","1">>), phone |-> Str(<<"4","4","4">>)]), Dict([name |-> Str(<<"W","2">>), email |-> Str(<<"w","@","x">>)])>>)])]
l_cp ==
    [name |-> <<"c","p",".","j","s","o","n">>, syntax |-> "json", brace |-> TRUE,
     payload |-> Dict([name |-> Str(<<"D">>), contactPoint |-> Dict([telephone |-> Str(<<"5","5","5">>), email |-> Str(<<"d","@","x">>)]), latitude |-> Num(<<"1">>), longitude |-> Num(<<"2">>)])]
l_cpbad ==
    [name |-> <<"d",".","j","s","o","n">>, syntax |-> "json", brace |-> TRUE,
     payload |-> List(<<Dict([name |-> Str(<<"E">>), contactPoint |-> Str(<<"c","a","l","l"," ","u","s">>)]), Dict([name |-> Str(<<"G">>), phone |-> Str(<<"6","6","6">>)])>>)]
l_geobad ==
    [name |-> <<"g","e","o",".","j","s","o","n">>, syntax |-> "json", brace |-> TRUE,
     payload |-> Dict([name |-> Str(<<"H">>), geo |-> Str(<<"1",",","2">>), email |-> Str(<<"h","@","x">>)])]
l_bare ==
    [name |-> <<"b","a","r","e",".","y","m","l">>, syntax |-> "yaml", brace |-> FALSE,
     payload |-> Dict([city |-> Str(<<"R","e","n","o">>), state |-> Str(<<"N","V">>)])]
l_bad ==
    [name |-> <<"a","-","b","a","d",".","j","s","o","n">>, syntax |-> "bad", brace |-> TRUE,
     payload |-> None]
l_maps ==
    [name |-> <<"m","a","p","s",".","y","a","m","l">>, syntax |-> "yaml", brace |-> FALSE,
     payload |-> List(<<Dict([name |-> Str(<<"K">>), geo |-> Dict([latitude |-> Num(<<"3">>), longitude |-> Num(<<"4">>)]), map |-> Str(<<"m",".","i","o","/","k">>), address |-> Str(<<"2"," ","E","l","m">>)]),
                        Dict([name |-> Str(<<"M">>), map |-> Str(<<"m",".","i","o","/","m">>), maps_url |-> Str(<<"g",".","c","o","/","m">>), address |-> Str(<<"3"," ","O","a","k">>)]),
                        Dict([name |-> Str(<<"N">>), maps_url |-> Str(<<"g",".","c","o","/","n">>), address |-> Str(<<"4"," ","A","s","h">>)]),
                        Dict([name |-> Str(<<"P">>), latitude |-> Num(<<"7">>), address |-> Str(<<"5"," ","F","i","r">>)])>>)]
l_zero ==
    [name |-> <<"z","e","r","o",".","j","s","o","n">>, syntax |-> "json", brace |-> TRUE,
     payload |-> Dict([name |-> Str(<<"Z">>), latitude |-> Num(<<"0">>), longitude |-> Num(<<"5">>), address |-> Str(<<"9"," ","B","a","y">>)])]
LocationsPool == {l_hq, l_two, l_wrap, l_cp, l_cpbad, l_geobad, l_bare, l_bad, l_maps, l_zero}
\* reviews
r_one ==
    [name |-> <<"r","1",".","j","s","o","n">>, syntax |-> "json", brace |-> TRUE,
     payload |-> Dict([author |-> Str(<<"Z","e","d">>), review_body |-> Str(<<"G","r","e","a","t">>), rating |-> Num(<<"5">>)])]
r_two ==
    [name |-> <<"r","2",".","y","a","m","l">>, syntax |-> "yaml", brace |-> FALSE,
     payload |-> List(<<Dict([customer_name |-> Str(<<"A","m","y">>), quote |-> Str(<<"F","i","n","e">>), rating |-> Num(<<"3">>)]), Str(<<"x">>)>>)]
r_three ==
    [name |-> <<"r","3",".","j","s","o","n">>, syntax |-> "json", brace |-> TRUE,
     payload |-> List(<<Dict([author |-> Str(<<"A","l">>), rating |-> Num(<<"5">>)]), Dict([author |-> Str(<<"B","o">>), rating |-> Num(<<"3">>)]), Dict([author |-> Str(<<"C","y">>), rating |-> Num(<<"4">>)])>>)]
r_nine ==
    [name |-> <<"r","9",".","y","a","m","l">>, syntax |-> "yaml", brace |-> FALSE,
     payload |-> Dict([author |-> Str(<<"D","i">>), quote |-> Str(<<"W","o","w">>), rating |-> Num(<<"9">>)])]
r_mixed ==
    [name |-> <<"r","4",".","y","m","l">>, syntax |-> "yaml", brace |-> FALSE,
     payload |-> List(<<Dict([author |-> Str(<<"E","d">>), rating |-> Str(<<"4">>)]), Dict([author |-> Str(<<"F","l","o">>)]), Dict([author |-> Str(<<"G","u","s">>), rating |-> Num(<<"0">>)]), Dict([author |-> Str(<<"H","a","l">>), rating |-> Str(<<"n","/","a">>)])>>)]
r_edge ==
    [name |-> <<"e","d","g","e",".","j","s","o","n">>, syntax |-> "json", brace |-> TRUE,
     payload |-> List(<<Dict([author |-> Str(<<"I","d","a">>), rating |-> Num(<<"4",".","5">>)]), Dict([author |-> Str(<<"J","o">>), rating |-> Str(<<" ","3",".","5"," ">>)]), Dict([author |-> Str(<<"K","i","m">>), rating |-> Num(<<"-","2">>)])>>)]
r_nan ==
    [name |-> <<"n","a","n",".","y","a","m","l">>, syntax |-> "yaml", brace |-> FALSE,
     payload |-> List(<<Dict([author |-> Str(<<"L","e","o">>), rating |-> Num(<<"n","a","n">>)]), Dict([author |-> Str(<<"M","a","x">>), rating |-> Num(<<"0",".","5">>)]), Dict([author |-> Str(<<"N","e","d">>), rating |-> List(<<Num(<<"4">>)>>)])>>)]
r_inf ==
    [name |-> <<"i","n","f",".","j","s","o","n">>, syntax |-> "json", brace |-> TRUE,
     payload |-> Dict([author |-> Str(<<"O","l","a">>), rating |-> Num(<<"-","i","n","f">>)])]
ReviewsPool == {r_one, r_two, r_three, r_nine, r_mixed, r_edge, r_nan, r_inf}
\* organization
o_acme ==
    [name |-> <<"o","r","g",".","j","s","o","n">>, syntax |-> "json", brace |-> TRUE,
     payload |-> Dict([name |-> Str(<<"A","c","m","e">>), website |-> Str(<<"a","c","m","e",".","i","o">>), description |-> Str(<<"R","o","o","f","e","r","s">>), favicon |-> Str(<<"f",".","i","c","o">>)])]
o_blank ==
    [name |-> <<"a",".","j","s","o","n">>, syntax |-> "blank", brace |-> FALSE,
     payload |-> None]
o_noname ==
    [name |-> <<"b",".","y","a","m","l">>, syntax |-> "yaml", brace |-> FALSE,
     payload |-> Dict([description |-> Str(<<"W","e"," ","b","u","i","l","d">>)])]
o_list ==
    [name |-> <<"c",".","y","m","l">>, syntax |-> "yaml", brace |-> FALSE,
     payload |-> List(<<Dict([legal_name |-> Str(<<"A","c","m","e"," ","L","t","d">>), favicon_url |-> Str(<<"l",".","i","c","o">>), about |-> Str(<<"S","i","n","c","e"," ","9","0">>)]),
                        Dict([name |-> Str(<<"O","t","h","e","r">>), favicon |-> Str(<<"o",".","i","c","o">>)])>>)]
o_junk ==
    [name |-> <<"j",".","j","s","o","n">>, syntax |-> "json", brace |-> TRUE,
     payload |-> List(<<Str(<<"o","o","p","s">>), Dict([name |-> Str(<<"Z","e","d">>)])>>)]
o_bad ==
    [name |-> <<"b","a","d",".","j","s","o","n">>, syntax |-> "bad", brace |-> TRUE,
     payload |-> None]
OrgPool == {o_acme, o_blank, o_noname, o_list, o_junk, o_bad}
\* help articles
h_front ==
    [name |-> <<"g","e","t","t","i","n","g","-","s","t","a","r","t","e","d",".","m","d">>, syntax |-> "yaml", brace |-> FALSE,
     payload |-> List(<<Str(<<"-","-","-">>), Str(<<"t","i","t","l","e",":"," ","S","t","a","r","t"," ","H","e","r","e">>), Str(<<"-","-","-">>), Str(<<"#"," ","I","n","t","r","o">>), Str(<<"-"," ","o","n","e">>), Str(<<>>), Str(<<"t","e","x","t">>)>>)]
h_plain ==
    [name |-> <<"f","a","q","_","g","u","i","d","e",".","m","d">>, syntax |-> "yaml", brace |-> FALSE,
     payload |-> List(<<Str(<<"#","#"," ","G","u","i","d","e">>), Str(<<"t","e","x","t">>)>>)]
h_txt ==
    [name |-> <<"n","o","t","e","s",".","t","x","t">>, syntax |-> "yaml", brace |-> FALSE,
     payload |-> List(<<Str(<<"t","e","x","t">>)>>)]
h_rule ==
    [name |-> <<"r","u","l","e","s",".","m","d">>, syntax |-> "yaml", brace |-> FALSE,
     payload |-> List(<<Str(<<"#"," ","I","n","t","r","o">>), Str(<<"-","-","-">>), Str(<<"t","i","t","l","e",":"," ","O","o","p","s">>), Str(<<"-","-","-">>), Str(<<"e","n","d">>)>>)]
h_notitle ==
    [name |-> <<"o","p","e","n","i","n","g","_","h","o","u","r","s",".","m","d">>, syntax |-> "yaml", brace |-> FALSE,
     payload |-> List(<<Str(<<"-","-","-">>), Str(<<"t","i","t","l","e",":">>), Str(<<"-","-","-">>), Str(<<"t","e","x","t">>)>>)]
HelpPool == {h_front, h_plain, h_txt, h_rule, h_notitle}

\* What each directory holds unless a tree says otherwise.
StdFiles ==
    [d \in AllDirs |->
        CASE d = "schemas/services" -> {s_bad, s_roof}
          [] d = "services" -> {s_item}
          [] d = "company" -> {o_acme}
          [] d = "locations" -> {l_hq}
          [] d = "faq-schemas" -> {f_two}
          [] d = "schemas/awards" -> {a_best}
          [] d = "reviews" -> {r_one}
          [] d = "help-articles" -> {h_front}
          [] d = "llm-data" -> {h_plain}]

FullDirs == {"schemas/services", "company", "locations", "faq-schemas", "schemas/awards",
             "reviews", "help-articles"}
LlmDirs == (FullDirs \ {"help-articles"}) \cup {"llm-data"}
\* Directories whose presence varies level by level
DirPool == {"schemas/services", "services", "company"}

AllOld == [p \in PageSet |-> "old"]
OldChoices == {AllOld, [p \in PageSet |-> "absent"],
               [p \in PageSet |-> IF p \in {"index.html", "faqs.html"} THEN "old" ELSE "absent"]}
              \cup {[AllOld EXCEPT ![p] = "dir"] : p \in PageSet}
RepoSlug == <<"a","c","m","e","/","m","y","-","s","i","t","e">>

\* The repository root is the topmost level; the script lies below it.
RootedTree(S) == [L \in 1..Depth |-> IF L = Depth THEN S ELSE {}]
BaseWorld ==
    [tree |-> RootedTree(FullDirs), launch |-> Depth, files |-> StdFiles,
     old |-> AllOld, nojekyll |-> "file", env |-> <<>>]

UpTo(S, n) == {T \in SUBSET S : Cardinality(T) <= n}
\* Trees that differ in what one directory holds
ContentWorlds(S, d, pool) ==
    {[BaseWorld EXCEPT !.tree = RootedTree(S), !.launch = L, !.files = [StdFiles EXCEPT ![d] = F]]
        : L \in 1..Depth, F \in UpTo(pool, MaxFiles)}
\* Trees that differ in which directories exist at which level, and in where the tool is started
DirWorlds ==
    {[BaseWorld EXCEPT !.tree = t, !.launch = L] : t \in [1..Depth -> SUBSET DirPool], L \in 1..Depth}
\* Trees that differ in what an earlier run left behind
OldWorlds ==
    {[BaseWorld EXCEPT !.old = o, !.nojekyll = n, !.env = e]
        : o \in OldChoices, n \in {"absent", "file", "dir"}, e \in {<<>>, RepoSlug}}

\* Trees that differ in what the organization folder holds and in the
\* GITHUB_REPOSITORY variable of the environment
OrgWorlds ==
    {[BaseWorld EXCEPT !.launch = L, !.env = e, !.files = [StdFiles EXCEPT !["company"] = F]]
        : L \in 1..Depth, e \in {<<>>, RepoSlug}, F \in UpTo(OrgPool, MaxFiles)}

\* Trees whose locations folder holds one record giving a subset of the five
\* address components, under "address" as a mapping or as flat fields
AddressComponents == {"street", "line2", "city", "state", "zip"}
ComponentText ==
    [c \in AddressComponents |->
        CASE c = "street" -> <<"1","2"," ","E","l","m"," ","S","t">>
          [] c = "line2" -> <<"A","p","t"," ","3">>
          [] c = "city" -> <<" ","R","e","n","o"," ">>
          [] c = "state" -> <<"N","V">>
          [] c = "zip" -> <<"8","9","5","0","1">>]
StructuredKey ==
    [c \in AddressComponents |->
        CASE c = "street" -> "streetAddress"
          [] c = "line2" -> "address2"
          [] c = "city" -> "addressLocality"
          [] c = "state" -> "addressRegion"
          [] c = "zip" -> "postalCode"]
FlatKey ==
    [c \in AddressComponents |->
        CASE c = "street" -> "address_street"
          [] c = "line2" -> "address2"
          [] c = "city" -> "address_city"
          [] c = "state" -> "address_state"
          [] c = "zip" -> "address_postal_code"]
ComponentFields(key, present) ==
    [k \in {key[c] : c \in present} |-> Str(ComponentText[CHOOSE c \in present : key[c] = k])]
AddressRecord(form, present) ==
    IF form = "structured"
    THEN Dict([name |-> Str(<<"A">>), address |-> Dict(ComponentFields(StructuredKey, present))])
    ELSE Dict(ComponentFields(FlatKey, present) @@ [name |-> Str(<<"A">>)])
AddressFile(form, present) ==
    [name |-> <<"a","d","d","r",".","j","s","o","n">>, syntax |-> "json", brace |-> TRUE, payload |-> AddressRecord(form, present)]
AddressWorlds ==
    {[BaseWorld EXCEPT !.files = [StdFiles EXCEPT !["locations"] = {AddressFile(form, present)}]]
        : form \in {"structured", "flat"}, present \in SUBSET AddressComponents}

Worlds ==
    DirWorlds \cup OldWorlds \cup AddressWorlds \cup OrgWorlds
    \cup ContentWorlds(FullDirs, "schemas/services", ServicesPool)
    \cup ContentWorlds(FullDirs, "schemas/awards", AwardsPool)
    \cup ContentWorlds(FullDirs, "faq-schemas", FaqPool)
    \cup ContentWorlds(FullDirs, "locations", LocationsPool)
    \cup ContentWorlds(FullDirs, "reviews", ReviewsPool)
    \cup ContentWorlds(FullDirs, "help-articles", HelpPool)
    \cup ContentWorlds(LlmDirs, "llm-data", HelpPool)

\* ------------------------------------------------------------------ state
VARIABLES
    world,      \* the input: directory levels, files, leftovers, environment
    cwd,        \* the level of the directory the process is in
    dirs,       \* ORG_DIR, SERVICES_DIR, ...: category -> directory or NoDir
    nojekyll,   \* what the path .nojekyll holds in the repository root
    out,        \* what each output path holds in the repository root
    pc,         \* where the script is
    ok,         \* the driver's flag
    exitCode,   \* the process exit status, -1 while it runs
    invoked,    \* the renderers called so far, in order
    raised,     \* the pages whose renderer raised
    run,        \* which run over the tree this is: 1, 2, ...
    prev        \* what the output paths held when the run before this one ended

vars == <<world, cwd, dirs, nojekyll, out, pc, ok, exitCode, invoked, raised, run, prev>>

Init ==
    /\ world \in Worlds
    /\ cwd = world.launch
    /\ dirs = [c \in Categories |-> NoDir]
    /\ nojekyll = world.nojekyll
    /\ out = [p \in PageSet |-> PathState(world.old[p])]
    /\ pc = "import"
    /\ ok = TRUE
    /\ exitCode = -1
    /\ invoked = <<>>
    /\ raised = {}
    /\ run = 1
    /\ prev = [p \in PageSet |-> PathState(world.old[p])]

\* The module body: the folder globals are resolved in the directory the
\* process was started in.
ImportModule ==
    /\ pc = "import"
    /\ dirs' = ResolveDirs(world.tree[cwd])
    /\ pc' = "chdir"
    /\ UNCHANGED <<world, run, prev, cwd, nojekyll, out, ok, exitCode, invoked, raised>>

\* REPO_ROOT = find_repo_root(); os.chdir(REPO_ROOT)
ChangeDir ==
    /\ pc = "chdir"
    /\ cwd' = find_repo_root(world.tree)
    /\ pc' = "nojekyll"
    /\ UNCHANGED <<world, run, prev, dirs, nojekyll, out, ok, exitCode, invoked, raised>>

\* An exception nothing catches ends the interpreter with status 1.
Uncaught == pc' = "exited" /\ exitCode' = 1

\* open(".nojekyll", "w").close()
CreateNoJekyll ==
    /\ pc = "nojekyll"
    /\ IF nojekyll = "dir"
       THEN Uncaught /\ UNCHANGED nojekyll
       ELSE nojekyll' = "file" /\ pc' = "delete" /\ UNCHANGED exitCode
    /\ UNCHANGED <<world, run, prev, cwd, dirs, out, ok, invoked, raised>>

\* for f in html_files: if os.path.exists(f): os.remove(f)
\* os.remove raises on a directory; the files before it are gone by then.
DeleteOld ==
    /\ pc = "delete"
    /\ LET blocked == {k \in 1..Len(Pages) : out[Pages[k]].st = "dir"}
           stop == IF blocked = {} THEN Len(Pages) + 1
                   ELSE CHOOSE k \in blocked : \A h \in blocked : k <= h
       IN /\ out' = [p \in PageSet |->
                        IF \E k \in 1..(stop - 1) : Pages[k] = p THEN PathState("absent") ELSE out[p]]
          /\ IF blocked = {} THEN pc' = Pages[1] /\ UNCHANGED exitCode ELSE Uncaught
    /\ UNCHANGED <<world, run, prev, cwd, dirs, nojekyll, ok, invoked, raised>>

\* try: gen()  except Exception: ok = False
Following(k) == IF k < Len(Pages) THEN Pages[k + 1] ELSE "finish"
\* A faulty variant of NextAfter: the renderer after the next one is taken.
NextAfterNext(p) == Following((CHOOSE j \in 1..Len(Pages) : Pages[j] = p) + 1)
NextAfter(p) == Following(CHOOSE j \in 1..Len(Pages) : Pages[j] = p)
\* body is what the renderer computed before opening its file; org is what
\* load_org_meta returns inside generate_page.
Outcome(body, org, now) == IF body.err THEN Raised(FALSE) ELSE generate_page(org, body, now)
\* One turn of the loop over the generators, r being what the renderer left behind
Step(p, r) ==
    /\ out' = [out EXCEPT ![p] = IF r.opened THEN r.page ELSE @]
    /\ ok' = (ok /\ ~r.err)
    /\ raised' = IF r.err THEN raised \cup {p} ELSE raised
    /\ invoked' = Append(invoked, p)
    /\ pc' = NextAfter(p)
    /\ UNCHANGED <<world, run, prev, cwd, dirs, nojekyll, exitCode>>
Run(p, body) == Step(p, Outcome(body, load_org_meta(world, dirs, cwd), run))

\* The orders os.listdir may hand the files of the locations folder over in
ListingOrders(F) == {o \in [1..Cardinality(F) -> F] : Range(o) = F}
LocationsListings ==
    IF dirs["locations"] # NoDir /\ IsDir(world.tree[cwd], dirs["locations"])
    THEN ListingOrders(ListDir(world, cwd, dirs["locations"])) ELSE {<<>>}

GenIndex ==
    /\ pc = "index.html"
    /\ Run("index.html", generate_index_page(world, dirs, cwd, load_org_meta(world, dirs, cwd)))
GenAbout ==
    /\ pc = "about.html"
    /\ \E order \in LocationsListings :
          Run("about.html", generate_about_page(world, dirs, cwd, order,
                                               load_org_meta(world, dirs, cwd)))
GenServices ==
    /\ pc = "services.html"
    /\ Run("services.html", generate_services_page(world, dirs, cwd))
GenAwards ==
    /\ pc = "awards.html"
    /\ Run("awards.html", generate_awards_page(world, dirs, cwd))
GenTestimonials ==
    /\ pc = "testimonials.html"
    /\ Run("testimonials.html", generate_testimonials_page(world, dirs, cwd))
GenFaq ==
    /\ pc = "faqs.html"
    /\ Run("faqs.html", generate_faq_page(world, dirs, cwd))
GenHelp ==
    /\ pc = "help.html"
    /\ Run("help.html", generate_help_articles_page(world, dirs, cwd))
GenContact ==
    /\ pc = "contact.html"
    /\ Run("contact.html", generate_contact_page(world, dirs, cwd))

\* if not ok: sys.exit(2)
Finish ==
    /\ pc = "finish"
    /\ exitCode' = IF ok THEN 0 ELSE 2
    /\ pc' = "exited"
    /\ UNCHANGED <<world, run, prev, cwd, dirs, nojekyll, out, ok, invoked, raised>>

\* The tool is started again over the same tree, from the same directory:
\* a new process, with what the run before left on disk. The pages and the
\* empty files that run left are from now on files of an earlier run.
RunAgain ==
    /\ pc = "exited"
    /\ run < MaxRuns
    /\ run' = run + 1
    /\ prev' = out
    /\ out' = [p \in PageSet |-> IF out[p].st \in {"written", "empty"} THEN PathState("old") ELSE out[p]]
    /\ pc' = "import"
    /\ cwd' = world.launch
    /\ dirs' = [c \in Categories |-> NoDir]
    /\ ok' = TRUE
    /\ exitCode' = -1
    /\ invoked' = <<>>
    /\ raised' = {}
    /\ UNCHANGED <<world, nojekyll>>

Next ==
    \/ ImportModule
    \/ ChangeDir
    \/ CreateNoJekyll
    \/ DeleteOld
    \/ GenIndex
    \/ GenAbout
    \/ GenServices
    \/ GenAwards
    \/ GenTestimonials
    \/ GenFaq
    \/ GenHelp
    \/ GenContact
    \/ Finish
    \/ RunAgain

Spec == Init /\ [][Next]_vars

TypeOK ==
    /\ pc \in {"import", "chdir", "nojekyll", "delete", "finish", "exited"} \cup PageSet
    /\ exitCode \in {-1, 0, 1, 2}
    /\ run \in 1..MaxRuns

\* ------------------------------------------------------------- properties
Root == find_repo_root(world.tree)
Called(p) == \E k \in 1..Len(invoked) : invoked[k] = p
Written(p) == out[p].st = "written"
CardsOn(p) == out[p].cards
OnPage(c, p) == \E k \in 1..Len(CardsOn(p)) : CardsOn(p)[k] = c
\* The files of the folder resolved for category c, as the process finds them
\* in the directory it is in; none when the folder is unresolved or not there.
SourceFiles(c) ==
    IF dirs[c] # NoDir /\ IsDir(world.tree[cwd], dirs[c])
    THEN SortedFiles(ListDir(world, cwd, dirs[c])) ELSE <<>>
AwardsFiles ==
    IF IsDir(world.tree[cwd], awards_dir) THEN SortedFiles(ListDir(world, cwd, awards_dir)) ELSE <<>>

\* C1: when a run terminates, each of the 8 output files exists and was
\* written during that run, whatever the input tree is (stated for the runs
\* that get past the set-up steps, where only renderers can fail).
C1_EveryPageWritten ==
    (pc = "exited" /\ exitCode # 1) => \A p \in PageSet : Written(p)

\* C2: in every run all 8 renderers are invoked, in order, whether or not an
\* earlier one raised; the exit code is 2 exactly when some renderer raised
\* and 0 otherwise.
C2_AllInvokedExitCode ==
    pc = "exited" =>
        /\ invoked = Pages
        /\ (exitCode = 2 <=> raised # {})
        /\ (raised = {} => exitCode = 0)
\* The part of C2 that holds: once the loop over the renderers is entered,
\* all 8 are invoked and the exit code tells whether one raised.
C2_WithinTheLoop ==
    (pc = "exited" /\ invoked # <<>>) =>
        /\ invoked = Pages
        /\ (exitCode = 2 <=> raised # {})
        /\ (raised = {} => exitCode = 0)

\* C3: no exception leaves the driver: every run ends with exit code 0 or 2.
C3_ExitZeroOrTwo == pc = "exited" => exitCode \in {0, 2}

\* The pages that have a source folder of their own, and whether that folder
\* is unresolved when the renderer of the page runs.
SourcedPages == {"services.html", "awards.html", "testimonials.html", "faqs.html",
                 "help.html", "contact.html"}
Unresolved(p) ==
    CASE p = "services.html" -> dirs["services"] = NoDir
      [] p = "awards.html" -> ~IsDir(world.tree[cwd], awards_dir)
      [] p = "testimonials.html" -> dirs["reviews"] = NoDir
      [] p = "faqs.html" -> dirs["faq"] = NoDir
      [] p = "help.html" -> HelpSource(world, dirs, cwd) = NoDir
      [] p = "contact.html" -> dirs["locations"] = NoDir
NoFolderText(p) ==
    CASE p = "services.html" -> PH_services_nodir
      [] p = "awards.html" -> PH_awards
      [] p = "testimonials.html" -> PH_reviews_nodir
      [] p = "faqs.html" -> PH_faq_nodir
      [] p = "help.html" -> PH_help_nodir
      [] p = "contact.html" -> PH_contact_nodir
\* C4: a renderer whose category has no resolved source folder writes its
\* page with that page's placeholder text and does not raise.
C4_PlaceholderWhenUnresolved ==
    \A p \in SourcedPages :
        (Called(p) /\ Unresolved(p)) =>
            /\ Written(p)
            /\ out[p].ph = NoFolderText(p)
            /\ p \notin raised

\* The mappings the FAQ and contact loops meet, in sorted-file, in-file order
FaqRecords == Flat(SourceFiles("faq"), FaqItemsOfFile)
ContactRecords == Flat(SourceFiles("locations"), LocRecordsOfFile)
\* C5: a malformed record never makes its renderer fail, and every other
\* record of the folder still appears on the written page (stated for the
\* FAQ and contact pages of runs started in the repository root).
C5_MalformedRecordTolerated ==
    world.launch = Root =>
        /\ Called("faqs.html") =>
              /\ Written("faqs.html")
              /\ \A k \in 1..Len(FaqRecords) :
                    ~FaqItemRaises(FaqRecords[k]) =>
                        \A c \in Range(FaqCard(FaqRecords[k])) : OnPage(c, "faqs.html")
        /\ Called("contact.html") =>
              /\ Written("contact.html")
              /\ \A k \in 1..Len(ContactRecords) :
                    ~LocRaises(ContactRecords[k]) => OnPage(LocCard(ContactRecords[k]), "contact.html")

\* A folder holding one file with invalid syntax and one valid file
BadFile(f) == f.syntax = "bad"
ValidFile(f) == f.syntax \in {"json", "yaml"} /\ HasDataExt(f) /\ load_data(f) # <<>>
OneBadOneValid(fs) == Len(fs) = 2 /\ \E i, j \in 1..2 : BadFile(fs[i]) /\ ValidFile(fs[j])
ServiceCardsOfRecords(f) ==
    Flat(ExpandServices(load_data(f)),
         LAMBDA svc : IF IsDict(svc) THEN <<ServiceCard(svc, f.name)>> ELSE <<>>)
AwardCardsOfRecords(f) ==
    Flat(load_data(f),
         LAMBDA aw : IF IsDict(aw) THEN <<AwardCard(aw, awards_path \o f.name)>> ELSE <<>>)
\* C6: for a folder holding one file with invalid syntax and one valid file,
\* the loader returns the empty list for the invalid file and every record
\* of the valid file is rendered on the page, whichever file sorts first
\* (stated for the services and awards pages).
C6_ValidFileRendered ==
    /\ (Called("services.html") /\ OneBadOneValid(SourceFiles("services"))) =>
          \A k \in 1..2 :
              LET f == SourceFiles("services")[k] IN
              /\ BadFile(f) => load_data(f) = <<>>
              /\ ValidFile(f) =>
                    /\ Written("services.html")
                    /\ \A c \in Range(ServiceCardsOfRecords(f)) : OnPage(c, "services.html")
    /\ (Called("awards.html") /\ OneBadOneValid(AwardsFiles)) =>
          \A k \in 1..2 :
              LET f == AwardsFiles[k] IN
              /\ BadFile(f) => load_data(f) = <<>>
              /\ ValidFile(f) =>
                    /\ Written("awards.html")
                    /\ \A c \in Range(AwardCardsOfRecords(f)) : OnPage(c, "awards.html")

\* C7: the folder a renderer reads for a category is the first candidate
\* that is a directory under the discovered repository root (the directory
\* the run changed into), or none, wherever the tool was started.
C7_ResolvedUnderRoot ==
    pc \in PageSet => (cwd = Root /\ dirs = ResolveDirs(world.tree[Root]))

\* A file whose top-level payload is a mapping holding a list under key, and
\* the mappings of that list
Wraps(f, key) ==
    HasDataExt(f) /\ f.syntax \in {"json", "yaml"} /\ IsDict(f.payload) /\ IsList(Get(f.payload, key))
ListUnder(f, key) == Range(SeqFilter(Get(f.payload, key).l, IsDict))
\* C8: for a file whose payload is a mapping holding a list under locations,
\* services or faqs, the records rendered for it are the elements of that
\* list, not the wrapping mapping, on the contact, services and FAQ pages.
C8_WrappedListRendered ==
    /\ Written("contact.html") =>
          \A k \in 1..Len(SourceFiles("locations")) :
              LET f == SourceFiles("locations")[k] IN
              Wraps(f, "locations") =>
                  /\ \A e \in ListUnder(f, "locations") : OnPage(LocCard(e), "contact.html")
                  /\ ~OnPage(LocCard(f.payload), "contact.html")
    /\ Written("services.html") =>
          \A k \in 1..Len(SourceFiles("services")) :
              LET f == SourceFiles("services")[k] IN
              Wraps(f, "services") =>
                  \A e \in ListUnder(f, "services") : OnPage(ServiceCard(e, f.name), "services.html")
    /\ Written("faqs.html") =>
          \A k \in 1..Len(SourceFiles("faq")) :
              LET f == SourceFiles("faq")[k] IN
              Wraps(f, "faqs") =>
                  \A e \in ListUnder(f, "faqs") :
                      \A c \in Range(FaqCard(e)) : OnPage(c, "faqs.html")

\* The placeholder blacklist in the words of the claim: the empty title, one
\* of six fixed words, or service/item/entry followed by digits (blanks may
\* come between), whatever the case of the letters.
Blacklisted(title) ==
    \/ title = <<>>
    \/ Lower(title) \in {<<"s","e","r","v","i","c","e">>,
                         <<"u","n","n","a","m","e","d"," ","s","e","r","v","i","c","e">>,
                         <<"u","n","t","i","t","l","e","d">>, <<"n","/","a">>, <<"n","a">>,
                         <<"t","b","d">>}
    \/ \E w \in {<<"s","e","r","v","i","c","e">>, <<"i","t","e","m">>, <<"e","n","t","r","y">>} :
          \E j \in (Len(w) + 1)..Len(title) :
              /\ SubSeq(Lower(title), 1, Len(w)) = w
              /\ \A k \in (Len(w) + 1)..(j - 1) : title[k] = " "
              /\ \A k \in j..Len(title) : title[k] \in Digits
\* The records the services and awards pages render, in page order, each with
\* the name of its file
WithFile(recs, fn) == [k \in 1..Len(recs) |-> [rec |-> recs[k], fn |-> fn]]
ServiceRecordsOfFile(f) ==
    IF ~HasDataExt(f) THEN <<>>
    ELSE WithFile(SeqFilter(ExpandServices(load_data(f)), IsDict), f.name)
AwardRecordsOfFile(f) ==
    IF ~EndsWithAny(f.name, DataExts) THEN <<>>
    ELSE WithFile(SeqFilter(load_data(f), IsDict), f.name)
ServiceRecords == Flat(SourceFiles("services"), ServiceRecordsOfFile)
AwardRecords == Flat(AwardsFiles, AwardRecordsOfFile)
ServiceTitleGiven(rec) == _first_nonempty(Gets(rec, <<"title", "service_name", "name">>))
AwardTitleGiven(rec) ==
    _first_nonempty(Gets(rec, <<"title", "award_name", "certification_name",
                                "accreditation_name", "license_name", "name", "issuer",
                                "organization">>))
\* The first two keywords of a record joined by " / " and title-cased
KeywordText(rec) == Title(Join(Take(_as_list(Get(rec, "keywords")), 2), <<" ", "/", " ">>))
FileTitle(fn) == _title_from_filename(fn)

Phones == SeqMap(ContactRecords, LocPhone)
Emails == SeqMap(ContactRecords, LocEmail)
\* shown is the first non-empty entry of vals, or empty when there is none
IsFirstNonEmpty(shown, vals) ==
    \/ shown = <<>> /\ \A k \in 1..Len(vals) : vals[k] = <<>>
    \/ \E k \in 1..Len(vals) :
          vals[k] # <<>> /\ shown = vals[k] /\ \A h \in 1..(k - 1) : vals[h] = <<>>
\* C10: on the contact page no location card carries a phone or an e-mail;
\* they appear only in the Quick Contact block, once each, and are the first
\* non-empty phone and the first non-empty e-mail in sorted-file, in-file order.
C10_PhoneEmailOnlyInQuickContact ==
    Written("contact.html") =>
        /\ Len(CardsOn("contact.html")) = Len(ContactRecords)
        /\ \A k \in 1..Len(CardsOn("contact.html")) :
              \A j \in 1..Len(CardsOn("contact.html")[k].rows) :
                  CardsOn("contact.html")[k].rows[j].k
                      \in {"Contact", "Address", "Hours", "Website", "Find us", "map"}
        /\ IsFirstNonEmpty(out["contact.html"].quick.phone, Phones)
        /\ IsFirstNonEmpty(out["contact.html"].quick.email, Emails)
        /\ out["contact.html"].quick.shown =
              (ContactRecords # <<>>)
\* A contact page is written from several records, two of which give
\* different phones, and the block shows the first of them.
C10_Witness ==
    /\ Written("contact.html")
    /\ \E k, h \in 1..Len(Phones) :
          /\ k < h
          /\ Phones[k] # <<>> /\ Phones[h] # <<>> /\ Phones[k] # Phones[h]
          /\ \A g \in 1..(k - 1) : Phones[g] = <<>>
          /\ out["contact.html"].quick.phone = Phones[k]
    /\ \E k \in 1..Len(Emails) : Emails[k] # <<>>

\* The value of the first row of card c whose key is k, empty when there is none
RowVal(c, k) ==
    IF \E j \in 1..Len(c.rows) : c.rows[j].k = k
    THEN c.rows[CHOOSE j \in 1..Len(c.rows) :
                    c.rows[j].k = k /\ \A h \in 1..(j - 1) : c.rows[h].k # k].v
    ELSE <<>>
\* The number a location gives for a coordinate, at the top level or under
\* geo; None when it gives none
CoordGiven(loc, key) ==
    IF Get(loc, key).t = "num" THEN Get(loc, key)
    ELSE IF IsDict(Get(loc, "geo")) /\ Get(Get(loc, "geo"), key).t = "num"
         THEN Get(Get(loc, "geo"), key)
    ELSE None
HasCoords(loc) == CoordGiven(loc, "latitude").t = "num" /\ CoordGiven(loc, "longitude").t = "num"
ExplicitMapUrl(loc) ==
    _first_nonempty(Gets(loc, <<"map_embed_url", "map", "map_iframe",
                                "google_maps_url", "maps_url", "map_url">>))
\* The map source the priority order of the claim gives a location whose
\* card shows the address addr
MapByPriority(loc, addr) ==
    IF HasCoords(loc)
    THEN MapsQuery \o CoordGiven(loc, "latitude").s \o <<",">> \o CoordGiven(loc, "longitude").s
         \o MapsZoom \o MapsEmbed
    ELSE IF ExplicitMapUrl(loc) # <<>> THEN ExplicitMapUrl(loc)
    ELSE IF addr # <<>> THEN MapsQuery \o quote_plus(addr) \o MapsEmbed
    ELSE <<>>
ZeroCoord(loc) ==
    \E key \in {"latitude", "longitude"} : CoordGiven(loc, key) = Num(<<"0">>) \/ Get(loc, key) = Num(<<"0">>)
\* C11: the map of a location card is built from numeric latitude and
\* longitude when the record has them (top-level or under geo), else it is
\* the explicit map URL, else the geocoding URL of the formatted address, and
\* there is no map when none of the three is available.
C11_MapSourcePriority ==
    Written("contact.html") =>
        /\ Len(CardsOn("contact.html")) = Len(ContactRecords)
        /\ \A k \in 1..Len(ContactRecords) :
              RowVal(CardsOn("contact.html")[k], "map") =
                  MapByPriority(ContactRecords[k], RowVal(CardsOn("contact.html")[k], "Address"))
\* The part of C11 that holds: the priority order is kept for every record
\* none of whose coordinates is the number 0.
C11_PriorityForNonZeroCoords ==
    Written("contact.html") =>
        /\ Len(CardsOn("contact.html")) = Len(ContactRecords)
        /\ \A k \in 1..Len(ContactRecords) :
              ~ZeroCoord(ContactRecords[k]) =>
                  RowVal(CardsOn("contact.html")[k], "map") =
                      MapByPriority(ContactRecords[k], RowVal(CardsOn("contact.html")[k], "Address"))
\* A contact page shows a coordinate map, an explicit map URL and a
\* geocoding URL on cards of records that have an address.
C11_PriorityCasesReached ==
    /\ Written("contact.html")
    /\ \E k \in 1..Len(ContactRecords) :
          HasCoords(ContactRecords[k]) /\ ExplicitMapUrl(ContactRecords[k]) # <<>>
    /\ \E k \in 1..Len(ContactRecords) :
          ~HasCoords(ContactRecords[k]) /\ ExplicitMapUrl(ContactRecords[k]) # <<>>
          /\ RowVal(CardsOn("contact.html")[k], "Address") # <<>>
    /\ \E k \in 1..Len(ContactRecords) :
          ~HasCoords(ContactRecords[k]) /\ ExplicitMapUrl(ContactRecords[k]) = <<>>
          /\ RowVal(CardsOn("contact.html")[k], "Address") # <<>>

\* The markdown files the help page renders, in page order
HelpFiles ==
    IF HelpSource(world, dirs, cwd) # NoDir /\ IsDir(world.tree[cwd], HelpSource(world, dirs, cwd))
    THEN MdFiles(ListDir(world, cwd, HelpSource(world, dirs, cwd))) ELSE <<>>
IsDelim(line) == Strip(line) = <<"-","-","-">>
\* The line that closes a metadata block opened on the leading line; 0 when
\* the leading line opens none or nothing closes it
BlockEnd(lines) ==
    IF lines # <<>> /\ IsDelim(lines[1]) /\ \E j \in 2..Len(lines) : IsDelim(lines[j])
    THEN CHOOSE j \in 2..Len(lines) : IsDelim(lines[j]) /\ \A h \in 2..(j - 1) : ~IsDelim(lines[h])
    ELSE 0
OutsideBlock(lines) ==
    IF BlockEnd(lines) = 0 THEN lines ELSE SubSeq(lines, BlockEnd(lines) + 1, Len(lines))
\* The text of the title entry of the leading block, empty when there is none
TitleEntries(lines) ==
    SeqFilter(SubSeq(lines, 2, BlockEnd(lines) - 1),
              LAMBDA line : SubSeq(Lower(line), 1, 6) = <<"t","i","t","l","e",":">>)
BlockTitle(lines) ==
    IF BlockEnd(lines) = 0 \/ TitleEntries(lines) = <<>> THEN <<>>
    ELSE Strip(SubSeq(TitleEntries(lines)[Len(TitleEntries(lines))], 7,
                      Len(TitleEntries(lines)[Len(TitleEntries(lines))])))
\* C12: only a delimited block that starts on the leading line of a help
\* article is metadata: the title is its title entry, else the title derived
\* from the file name, and every line outside that block yields exactly one
\* element of the rendered body, in file order.
C12_LeadingBlockOnly ==
    Written("help.html") =>
        /\ Len(CardsOn("help.html")) = Len(HelpFiles)
        /\ \A k \in 1..Len(HelpFiles) :
              /\ CardsOn("help.html")[k].title =
                    IF BlockTitle(MdLines(HelpFiles[k])) # <<>>
                    THEN BlockTitle(MdLines(HelpFiles[k]))
                    ELSE FileTitle(HelpFiles[k].name)
              /\ CardsOn("help.html")[k].rows = SeqMap(OutsideBlock(MdLines(HelpFiles[k])), HtmlLine)
\* A line of three dashes below the leading line, as markdown writes a rule
RuleBelow(lines) ==
    \E j \in 2..Len(lines) : IsDelim(lines[j]) /\ (BlockEnd(lines) = 0 \/ j > BlockEnd(lines))
\* The part of C12 that holds: it is true of every article that has no line
\* of three dashes outside its leading block.
C12_WithoutLaterRule ==
    Written("help.html") =>
        /\ Len(CardsOn("help.html")) = Len(HelpFiles)
        /\ \A k \in 1..Len(HelpFiles) :
              ~RuleBelow(MdLines(HelpFiles[k])) =>
                  /\ CardsOn("help.html")[k].title =
                        IF BlockTitle(MdLines(HelpFiles[k])) # <<>>
                        THEN BlockTitle(MdLines(HelpFiles[k]))
                        ELSE FileTitle(HelpFiles[k].name)
                  /\ CardsOn("help.html")[k].rows =
                        SeqMap(OutsideBlock(MdLines(HelpFiles[k])), HtmlLine)
\* A help page carries an article titled by its leading block and one titled
\* by its file name because the title entry of its block is empty.
C12_TitlesReached ==
    /\ Written("help.html")
    /\ \E k \in 1..Len(HelpFiles) :
          BlockTitle(MdLines(HelpFiles[k])) # <<>>
          /\ CardsOn("help.html")[k].title = BlockTitle(MdLines(HelpFiles[k]))
    /\ \E k \in 1..Len(HelpFiles) :
          BlockEnd(MdLines(HelpFiles[k])) # 0 /\ BlockTitle(MdLines(HelpFiles[k])) = <<>>
          /\ CardsOn("help.html")[k].title = FileTitle(HelpFiles[k].name)

\* The ratings the About page averages, in tenths: the positive numbers the
\* reviews of the resolved folder give
ReviewRatings == Flat(SourceFiles("reviews"), AboutRatings)
AboutRows == CardsOn("about.html")[1].rows
HasRow(rows, k) == \E j \in 1..Len(rows) : rows[j].k = k
\* The tenths a text d.d (or dd.d) stands for
TenthsOf(text) == 10 * IntOf(SubSeq(text, 1, Len(text) - 2)) + IntOf(SubSeq(text, Len(text), Len(text)))
Filled(stars) == Cardinality({j \in 1..Len(stars) : stars[j] = "*"})
\* q is a / n rounded to a nearest integer
Nearest(q, a, n) == 2 * a - n <= 2 * q * n /\ 2 * q * n <= 2 * a + n
\* C13: for a non-empty collection of ratings the About page shows their
\* mean rounded to one decimal, and a star row whose filled stars number the
\* mean rounded to an integer, the filled ones first, 5 stars in all.
C13_MeanAndFiveStars ==
    (Written("about.html") /\ ReviewRatings # <<>>) =>
        /\ HasRow(AboutRows, "Average rating") /\ HasRow(AboutRows, "Stars")
        /\ Nearest(TenthsOf(RowVal(CardsOn("about.html")[1], "Average rating")),
                   Sum(ReviewRatings), Len(ReviewRatings))
        /\ Nearest(Filled(RowVal(CardsOn("about.html")[1], "Stars")),
                   Sum(ReviewRatings), 10 * Len(ReviewRatings))
        /\ RowVal(CardsOn("about.html")[1], "Stars")
              = StarRow(Filled(RowVal(CardsOn("about.html")[1], "Stars")))
        /\ Len(RowVal(CardsOn("about.html")[1], "Stars")) = 5
\* The part of C13 that holds: it is true whenever no rating is above 5.
C13_RatingsUpToFive ==
    (Written("about.html") /\ ReviewRatings # <<>>
        /\ \A k \in 1..Len(ReviewRatings) : ReviewRatings[k] <= 50) =>
        /\ HasRow(AboutRows, "Average rating") /\ HasRow(AboutRows, "Stars")
        /\ Nearest(TenthsOf(RowVal(CardsOn("about.html")[1], "Average rating")),
                   Sum(ReviewRatings), Len(ReviewRatings))
        /\ Nearest(Filled(RowVal(CardsOn("about.html")[1], "Stars")),
                   Sum(ReviewRatings), 10 * Len(ReviewRatings))
        /\ RowVal(CardsOn("about.html")[1], "Stars")
              = StarRow(Filled(RowVal(CardsOn("about.html")[1], "Stars")))
        /\ Len(RowVal(CardsOn("about.html")[1], "Stars")) = 5
\* The About page shows "4.0" with 4 filled stars and 1 empty one for the
\* ratings 5, 3, 4.
C13_FourOfFiveReached ==
    /\ Written("about.html")
    /\ ReviewRatings = <<50, 30, 40>>
    /\ RowVal(CardsOn("about.html")[1], "Average rating") = <<"4", ".", "0">>
    /\ RowVal(CardsOn("about.html")[1], "Stars") = <<"*", "*", "*", "*", "o">>

\* The components a location record gives of its address, each stripped:
\* under "address" when that is a mapping, else as flat fields
GivenComponent(loc, c) ==
    IF IsDict(Get(loc, "address"))
    THEN _first_nonempty(Gets(Get(loc, "address"),
            CASE c = "street" -> <<"streetAddress", "address1", "addressLine1">>
              [] c = "line2" -> <<"address2", "addressLine2", "suite">>
              [] c = "city" -> <<"addressLocality", "city">>
              [] c = "state" -> <<"addressRegion", "state">>
              [] c = "zip" -> <<"postalCode", "zip", "zipCode">>))
    ELSE _first_nonempty(Gets(loc,
            CASE c = "street" -> <<"address_street", "streetAddress", "street">>
              [] c = "line2" -> <<"address2", "suite">>
              [] c = "city" -> <<"address_city", "city">>
              [] c = "state" -> <<"address_state", "state", "addressRegion">>
              [] c = "zip" -> <<"address_postal_code", "postalCode", "zip">>))
\* A record whose address is given by components, not as one string
ByComponents(loc) == ~(IsStr(Get(loc, "address")) /\ Strip(Get(loc, "address").s) # <<>>)
\* The pieces of the address in order, one blank between two of them: each
\* present component, the city followed by a comma when the state is present too
AddressPieces(loc) ==
    SeqFilter(<<GivenComponent(loc, "street"), GivenComponent(loc, "line2"),
                IF GivenComponent(loc, "city") # <<>> /\ GivenComponent(loc, "state") # <<>>
                THEN GivenComponent(loc, "city") \o <<",">> ELSE GivenComponent(loc, "city"),
                GivenComponent(loc, "state"), GivenComponent(loc, "zip")>>,
              LAMBDA piece : piece # <<>>)
\* C14: the address of a record that gives any subset of street, second
\* line, city, state and postal code, as a mapping or as flat fields, shows
\* the present components in that order, city and state joined by a comma
\* only when both are present, and nothing for an absent component: no
\* leading, trailing or doubled comma or blank.
C14_AddressFromComponents ==
    Written("contact.html") =>
        /\ Len(CardsOn("contact.html")) = Len(ContactRecords)
        /\ \A k \in 1..Len(ContactRecords) :
              ByComponents(ContactRecords[k]) =>
                  RowVal(CardsOn("contact.html")[k], "Address")
                      = Join(AddressPieces(ContactRecords[k]), <<" ">>)
\* A contact page shows "Reno, NV" for a structured address with city and
\* state and no postal code.
C14_CityStateReached ==
    /\ Written("contact.html")
    /\ Len(ContactRecords) = 1
    /\ IsDict(Get(ContactRecords[1], "address"))
    /\ DOMAIN Get(ContactRecords[1], "address").d = {"addressLocality", "addressRegion"}
    /\ RowVal(CardsOn("contact.html")[1], "Address") = <<"R","e","n","o",","," ","N","V">>
\* The same for flat fields: a street and a postal code with one blank between them.
C14_FlatReached ==
    /\ Written("contact.html")
    /\ Len(ContactRecords) = 1
    /\ DOMAIN ContactRecords[1].d = {"name", "address_street", "address_postal_code"}
    /\ RowVal(CardsOn("contact.html")[1], "Address")
          = <<"1","2"," ","E","l","m"," ","S","t"," ","8","9","5","0","1">>

\* What a path holds apart from the timestamp line
Unstamped(page) == [page EXCEPT !.stamp = 0]
\* C15: a second run over the unchanged tree leaves each of the 8 pages with
\* the content the first run left, the timestamp line apart, whatever order
\* the directory listings come in.
C15_SameOutputOnRerun ==
    (pc = "exited" /\ run > 1) =>
        \A p \in PageSet : Unstamped(out[p]) = Unstamped(prev[p])
\* The part of C15 that holds: it is true of every page but the About page.
C15_SameOutputButAbout ==
    (pc = "exited" /\ run > 1) =>
        \A p \in PageSet \ {"about.html"} : Unstamped(out[p]) = Unstamped(prev[p])
\* A second run has ended with all 8 pages written, each as the first run wrote it.
C15_RerunReached ==
    /\ pc = "exited" /\ run > 1
    /\ \A p \in PageSet : Written(p) /\ out[p].stamp = run /\ prev[p].stamp = run - 1
                          /\ Unstamped(out[p]) = Unstamped(prev[p])

\* C17: at the end of a run, successful or not, none of the 8 output paths
\* holds what an earlier run left there: each holds a file of this run or nothing.
C17_NothingLeftOver ==
    pc = "exited" =>
        \A p \in PageSet :
            \/ out[p].st = "absent"
            \/ out[p].st \in {"written", "empty"} /\ (Written(p) => out[p].stamp = run)
\* The part of C17 that holds: it is true of every run that gets as far as
\* the first renderer, and from then on until the run ends.
C17_NothingLeftOverOnceRendering ==
    (pc \in PageSet \cup {"finish"} \/ (pc = "exited" /\ exitCode # 1)) =>
        \A p \in PageSet :
            \/ out[p].st = "absent"
            \/ out[p].st \in {"written", "empty"} /\ (Written(p) => out[p].stamp = run)
\* A run over a tree that held 8 old pages has ended with 8 pages of its own.
C17_OldPagesReplaced ==
    /\ pc = "exited" /\ run = 1
    /\ \A p \in PageSet : world.old[p] = "old" /\ Written(p) /\ out[p].stamp = run

\* The renderer that follows page p in the fixed order, "finish" after the last
NextInOrder(k) == IF k < 8 THEN Pages[k + 1] ELSE "finish"
\* What C18 asks of one step of a renderer
InOrderStep ==
    pc \in PageSet =>
        /\ Pages = <<"index.html", "about.html", "services.html", "awards.html",
                     "testimonials.html", "faqs.html", "help.html", "contact.html">>
        /\ Len(invoked) < 8
        /\ invoked = SubSeq(Pages, 1, Len(invoked))
        /\ pc = Pages[Len(invoked) + 1]
        /\ \A k \in 1..Len(invoked) : Written(invoked[k]) \/ invoked[k] \in raised
        /\ invoked' = Append(invoked, pc)
        /\ \A p \in PageSet \ {pc} : out'[p] = out[p]
        /\ (out'[pc].st = "written" /\ out'[pc].stamp = run) \/ pc \in raised'
        /\ pc' = NextInOrder(Len(invoked) + 1)
\* C18: the pages are built one at a time in the order index, about,
\* services, awards, testimonials, faqs, help, contact: when a renderer is
\* about to run, all those before it and no other have run, each has written
\* its file or failed, and the step of the renderer touches its own output
\* file and no other before the next one is due.
C18_OneAtATimeInOrder == [][InOrderStep]_vars
\* The last renderer is about to run after one before it failed and the
\* others wrote their files.
C18_LastRendererDue ==
    /\ pc = "contact.html"
    /\ Len(invoked) = 7
    /\ raised # {}
    /\ \E p \in PageSet : Written(p)

\* A file with one of the permissive extensions whose content parses to records
PermissiveExts == {Ext_md, Ext_llm, Ext_txt}
Permissive(f) == EndsWithAny(Lower(f.name), PermissiveExts) /\ load_data(f) # <<>>
\* The cards a data file with the same content yields
ServiceCardsOfContent(f) ==
    Flat(ExpandServices(load_data(f)),
         LAMBDA svc : IF IsDict(svc) THEN <<ServiceCard(svc, f.name)>> ELSE <<>>)
FaqCardsOfContent(f) == Flat(SeqFilter(load_data(f), IsDict), FaqCard)
PermissiveIn(c) == {k \in 1..Len(SourceFiles(c)) : Permissive(SourceFiles(c)[k])}
\* C16: a .md, .llm or .txt file with valid JSON or YAML content in the
\* resolved folder of a category contributes its records to the written
\* page of that category, as a data file with that content would (stated
\* for the services and FAQ pages).
C16_PermissiveFilesContribute ==
    /\ Written("services.html") =>
          \A k \in PermissiveIn("services") :
              \A c \in Range(ServiceCardsOfContent(SourceFiles("services")[k])) : OnPage(c, "services.html")
    /\ Written("faqs.html") =>
          \A k \in PermissiveIn("faq") :
              \A c \in Range(FaqCardsOfContent(SourceFiles("faq")[k])) : OnPage(c, "faqs.html")

\* What the code does instead: the page holds the cards of the files with a
\* data extension only, so a permissive file adds nothing to it.
C16_DataExtensionsOnly ==
    /\ Written("services.html") =>
          CardsOn("services.html") = Flat(SeqFilter(SourceFiles("services"), HasDataExt), ServiceCardsOfContent)
    /\ Written("faqs.html") =>
          CardsOn("faqs.html") = Flat(SeqFilter(SourceFiles("faq"), HasDataExt), FaqCardsOfContent)

\* A written FAQ page over a folder holding a permissive file with records
C16_PermissiveFileMet ==
    /\ Written("faqs.html")
    /\ PermissiveIn("faq") # {}
    /\ Written("services.html")

\* The organization files that load to something, in sorted filename order,
\* and the first record of the first of them
OrgLoads == SeqFilter(SourceFiles("org"), LAMBDA f : HasDataExt(f) /\ load_data(f) # <<>>)
FirstFound == IF OrgLoads = <<>> THEN None ELSE load_data(OrgLoads[1])[1]
NameGiven(rec) ==
    IF ~IsDict(rec) THEN <<>>
    ELSE _first_nonempty(<<Get(rec, "entity_name"), Get(rec, "name"), Get(rec, "legal_name"),
                           Get(rec, "brand"), Get(rec, "site_title")>>)
IconGiven(rec) ==
    IF ~IsDict(rec) THEN <<>> ELSE _first_nonempty(<<Get(rec, "favicon"), Get(rec, "favicon_url")>>)
EnvName == IF world.env # <<>> THEN RepoName(world.env) ELSE <<"S","i","t","e">>
ExpectedSite(name) == IF name # <<>> THEN name ELSE EnvName
ExpectedIcon(icon) == IF icon # <<>> THEN icon ELSE <<"f","a","v","i","c","o","n",".","i","c","o">>
\* C19: the site name and favicon of every page written in a run are those
\* of the first record found when the organization files are scanned in
\* sorted filename order, nothing of a later file is merged in, the name
\* falls back to the one derived from the repository variable, or "Site",
\* when that record gives none, and all pages of the run carry the same values.
C19_SiteMetaFromFirstRecord ==
    \A p \in PageSet :
        Written(p) =>
            /\ out[p].site = ExpectedSite(NameGiven(FirstFound))
            /\ out[p].icon = ExpectedIcon(IconGiven(FirstFound))
            /\ \A q \in PageSet :
                  Written(q) => out[q].site = out[p].site /\ out[q].icon = out[p].icon

\* A finished run with 8 written pages over two organization files: the
\* first record found names nothing, a later file names the firm, and the
\* pages carry the name derived from the repository variable.
C19_FallbackOverLaterFile ==
    /\ pc = "exited"
    /\ \A p \in PageSet : Written(p)
    /\ Len(OrgLoads) = 2
    /\ NameGiven(FirstFound) = <<>>
    /\ NameGiven(load_data(OrgLoads[2])[1]) # <<>>
    /\ world.env # <<>>
    /\ out["contact.html"].site = <<"M","y"," ","S","i","t","e">>
\* A finished run whose pages carry the name and favicon of the first record
\* of a file that holds two records
C19_FirstOfTwoRecords ==
    /\ pc = "exited"
    /\ \A p \in PageSet : Written(p)
    /\ out["index.html"].site = <<"A","c","m","e"," ","L","t","d">>
    /\ out["index.html"].icon = <<"l",".","i","c","o">>

\* The description the About card shows for an organization record: the one
\* the record gives, else the sentence made from the name on the card
DescGiven(rec) ==
    IF ~IsDict(rec) THEN <<>> ELSE _first_nonempty(<<Get(rec, "description"), Get(rec, "about")>>)
AboutCardShown == CardsOn("about.html")[1]
DescShown == RowVal(AboutCardShown, "description")
\* C20: the About page body is built from the record Site Metadata is
\* derived from, whatever the organization folder holds: its description row
\* is the description of the first record found, when that record gives one.
C20_AboutFromMetaRecord ==
    (Written("about.html") /\ DescGiven(FirstFound) # <<>>) =>
        DescShown = DescGiven(FirstFound)

\* The first organization file by sorted name, whether it loads or not
OrgDataFiles == SeqFilter(SourceFiles("org"), HasDataExt)
FirstFileLoads == OrgDataFiles # <<>> /\ load_data(OrgDataFiles[1]) # <<>>
\* When the first file by sorted name loads to something, the About body and
\* Site Metadata are built from the same record.
C20_SameRecordWhenFirstFileLoads ==
    (Written("about.html") /\ FirstFileLoads /\ DescGiven(FirstFound) # <<>>) =>
        DescShown = DescGiven(FirstFound)

\* A written About page over a folder whose first file is empty or does not
\* parse and whose later file gives a description
C20_LaterFileValid ==
    /\ Written("about.html")
    /\ ~FirstFileLoads
    /\ DescGiven(FirstFound) # <<>>
\* A written About page showing the description of the record the site name comes from
C20_DescriptionShown ==
    /\ Written("about.html")
    /\ FirstFileLoads
    /\ DescShown = <<"R","o","o","f","e","r","s">>
    /\ out["about.html"].site = <<"A","c","m","e">>

\* The reviews the testimonials page shows, in page order: the mappings of
\* the data files of the resolved folder
ReviewsOfFile(f) == IF ~HasDataExt(f) THEN <<>> ELSE SeqFilter(load_data(f), IsDict)
ReviewRecords == Flat(SourceFiles("reviews"), ReviewsOfFile)
RatingGiven(rev) == FloatOf(Get(rev, "rating"))
\* A rating that is missing or not a number: no value, a value that is no
\* number and no numeric text, or the float nan
NoNumber(rev) == RatingGiven(rev).err \/ RatingGiven(rev).kind = "nan"
\* The rating truncated to an integer and clamped to 1..5; everything below
\* 1 clamps to 1, minus infinity included
ClampedRating(rev) ==
    IF RatingGiven(rev).kind = "ninf" \/ RatingGiven(rev).tenths < 10 THEN 1
    ELSE IF RatingGiven(rev).tenths >= 50 THEN 5
    ELSE CHOOSE n \in 1..4 : 10 * n <= RatingGiven(rev).tenths /\ RatingGiven(rev).tenths < 10 * (n + 1)
ExpectedFilled(rev) == IF NoNumber(rev) THEN 5 ELSE ClampedRating(rev)
StarsShown(k) == RowVal(CardsOn("testimonials.html")[k], "stars")
FiveWithFilled(stars, n) ==
    /\ Len(stars) = 5
    /\ \A j \in 1..5 : stars[j] = (IF j <= n THEN "*" ELSE "o")
\* C21: on the written testimonials page every review shows 5 stars in all,
\* the filled ones numbering its rating truncated to an integer and clamped
\* to 1..5, and 5 when the rating is missing or not a number.
C21_FiveStarsClamped ==
    Written("testimonials.html") =>
        /\ Len(CardsOn("testimonials.html")) = Len(ReviewRecords)
        /\ \A k \in 1..Len(ReviewRecords) :
              FiveWithFilled(StarsShown(k), ExpectedFilled(ReviewRecords[k]))

\* The part of C21 that holds: every review whose rating is not minus infinity
C21_FiniteRatings ==
    Written("testimonials.html") =>
        /\ Len(CardsOn("testimonials.html")) = Len(ReviewRecords)
        /\ \A k \in 1..Len(ReviewRecords) :
              RatingGiven(ReviewRecords[k]).kind # "ninf" =>
                  FiveWithFilled(StarsShown(k), ExpectedFilled(ReviewRecords[k]))

\* A written testimonials page showing 4 filled stars for the rating 4.5,
\* 3 for the text " 3.5 " and 1 for the rating -2
C21_TruncatedAndClampedReached ==
    /\ Written("testimonials.html")
    /\ Len(ReviewRecords) >= 3
    /\ Get(ReviewRecords[1], "rating") = Num(<<"4",".","5">>)
    /\ StarsShown(1) = <<"*","*","*","*","o">>
    /\ StarsShown(2) = <<"*","*","*","o","o">>
    /\ StarsShown(3) = <<"*","o","o","o","o">>
\* A written testimonials page showing 5 filled stars for a rating that is
\* missing, for one that is no number and for the rating 9
C21_DefaultsReached ==
    /\ Written("testimonials.html")
    /\ \E i, j, k \in 1..Len(ReviewRecords) :
          /\ Get(ReviewRecords[i], "rating") = None
          /\ Get(ReviewRecords[j], "rating") = Str(<<"n","/","a">>)
          /\ Get(ReviewRecords[k], "rating") = Num(<<"9">>)
          /\ StarsShown(i) = <<"*","*","*","*","*">>
          /\ StarsShown(j) = <<"*","*","*","*","*">>
          /\ StarsShown(k) = <<"*","*","*","*","*">>
====
